---- MODULE Spec2Model ----
(***************************************************************************)
(* SourceControlService (packages/cli/src/environments/sourceControl/      *)
(* sourceControl.service.ee.ts): the git-backed synchronisation of         *)
(* workflows, credentials, variables and tags.                             *)
(*                                                                         *)
(* The module holds seven specifications over the same variables:          *)
(*   SpecDiff     getStatus2 applied to a broad family of local and remote *)
(*                snapshots (the reconciliation of section 4.2);           *)
(*   Spec         status and push (init, getStatus2, pushWorkfolder2)      *)
(*                over a few snapshot scenarios, with a clock and a stale  *)
(*                working folder, every collaborator call succeeding;      *)
(*   SpecFail     status and push with each collaborator call free to      *)
(*                reject;                                                  *)
(*   SpecRepo     the handlers of the repository's life cycle, each        *)
(*                collaborator call free to reject, over remotes with and  *)
(*                without the configured branch;                           *)
(*   SpecService  every handler of the service, in any order;              *)
(*   SpecRace     two invocations of push, status and reset running one    *)
(*                collaborator call at a time over the same git index;     *)
(*   SpecFile     fileNameToSourceControlledFile applied to a file and a   *)
(*                git status result.                                       *)
(* Outside SpecRace every handler is one action; the collaborator calls it *)
(* makes are appended, in order, to the log `calls` of that invocation.    *)
(***************************************************************************)
EXTENDS Integers, Sequences, FiniteSets, TLC

VARIABLES
    db,          \* EntityRepository: the rows of the database, per kind
    folder,      \* the export tree in the git working folder, per kind
    remote,      \* the export tree at the tip of the remote branch
    clock,       \* what `new Date()` returns
    git,         \* gitService.git: TRUE when the cached handle is set
    prefs,       \* sourceControlPreferences
    keyPair,     \* TRUE while the key pair files exist
    branches,    \* the branches of the remote repository
    calls,       \* collaborator calls made by the last invocation, in order
    raised,      \* the errors those calls raised, in order
    ret,         \* the last invocation: operation, options, outcome
    index,       \* the paths staged in the git index (SpecRace)
    flight,      \* the invocations running one call at a time (SpecRace)
    committed    \* the last commit made by such an invocation (SpecRace)

vars == <<db, folder, remote, clock, git, prefs, keyPair, branches, calls, raised, ret,
          index, flight, committed>>

-----------------------------------------------------------------------------
(* Bounds of the model. *)

\* the snapshots of SpecDiff hold at most this many records in total
MaxEntities == 2
\* the clock of Spec stops ticking here
MaxClock == 1
\* options.fileNames of pushWorkfolder2 holds at most this many items
MaxFiles == 1

WorkflowIds == {"W1", "W2"}
CredentialIds == {"C1", "C2"}
VariableIds == {"1", "2"}
TagIds == {"T1", "T2"}
VersionIds == {"v1", "v2"}
Names == {"A", "B"}
Keys == {"k1", "k2"}
Values == {"x", "y"}

\* an absent string field (name, updatedAt)
NoValue == "undefined"
\* an absent object: undefined is <<>>, a present object o is <<o>>
Undefined == <<>>
Some(o) == <<o>>

\* a ?? b
OrElse(a, b) == IF a = NoValue THEN b ELSE a

\* Date.prototype.toISOString, on the model's clock values
toISOString(t) == "T" \o ToString(t)

-----------------------------------------------------------------------------
(* Array helpers: filter is SelectSeq. *)

\* Array.prototype.findIndex(...) !== -1
Has(s, P(_)) == \E i \in 1..Len(s) : P(s[i])

\* Array.prototype.find: the first match, or undefined
Find(s, P(_)) ==
    IF Has(s, P)
    THEN LET i == CHOOSE j \in 1..Len(s) :
                     /\ P(s[j])
                     /\ \A k \in 1..(j - 1) : ~P(s[k])
         IN Some(s[i])
    ELSE Undefined

\* Array.prototype.map
Map(s, F(_)) == [i \in 1..Len(s) |-> F(s[i])]

\* the elements of an array, as a set
Range(s) == {s[i] : i \in 1..Len(s)}

-----------------------------------------------------------------------------
(* File layout of the export tree. *)

getWorkflowExportPath(id) == "workflows/" \o id \o ".json"
getCredentialExportPath(id) == "credentials/" \o id \o ".json"
getVariablesPath == "variables.json"
getTagsPath == "tags.json"

EmptyTree == [wf |-> <<>>, cred |-> <<>>, var |-> <<>>, tags |-> <<>>, mappings |-> <<>>]

-----------------------------------------------------------------------------
(* EntitySnapshotReader (SourceControlImportService): the projections the   *)
(* reconciliation compares.  Rows of the database carry updatedAt, exported *)
(* files do not.                                                            *)

getLocalVersionIdsFromDb(d) ==
    Map(d.wf, LAMBDA row : [id |-> row.id, versionId |-> row.versionId,
                            name |-> row.name,
                            filename |-> getWorkflowExportPath(row.id),
                            updatedAt |-> toISOString(row.updatedAt)])

getRemoteVersionIdsFromFiles(f) ==
    Map(f.wf, LAMBDA file : [id |-> file.id, versionId |-> file.versionId,
                             name |-> file.name,
                             filename |-> getWorkflowExportPath(file.id),
                             updatedAt |-> NoValue])

getLocalCredentialsFromDb(d) ==
    Map(d.cred, LAMBDA row : [id |-> row.id, name |-> row.name, type |-> row.type,
                              nodesAccess |-> row.nodesAccess,
                              filename |-> getCredentialExportPath(row.id)])

getRemoteCredentialsFromFiles(f) ==
    Map(f.cred, LAMBDA file : [id |-> file.id, name |-> file.name, type |-> file.type,
                               nodesAccess |-> file.nodesAccess,
                               filename |-> getCredentialExportPath(file.id)])

getLocalVariablesFromDb(d) == d.var

getRemoteVariablesFromFile(f) == f.var

getLocalTagsAndMappingsFromDb(d) == [tags |-> d.tags, mappings |-> d.mappings]

getRemoteTagsAndMappingsFromFile(f) == [tags |-> f.tags, mappings |-> f.mappings]

\* Db.collections.Tag.find({order: {updatedAt: 'DESC'}, take: 1}), then
\* lastUpdatedTag[0]?.updatedAt.toISOString()
lastUpdatedTag(d) ==
    IF d.tags = <<>>
    THEN NoValue
    ELSE toISOString(CHOOSE t \in {r.updatedAt : r \in Range(d.tags)} :
                         \A r \in Range(d.tags) : r.updatedAt <= t)

-----------------------------------------------------------------------------
(* getStatus2: the reconciliation, kind by kind. *)

SourceControlledFile(id, name, type, status, location, conflict, file, updatedAt) ==
    [id |-> id, name |-> name, type |-> type, status |-> status,
     location |-> location, conflict |-> conflict, file |-> file,
     updatedAt |-> updatedAt]

\* the entries of a mapped array that are not undefined
Defined(s) == Map(SelectSeq(s, LAMBDA o : o # Undefined), LAMBDA o : o[1])

\* records of `these` whose id no record of `those` has
missingIn(these, those) ==
    SelectSeq(these, LAMBDA a : ~Has(those, LAMBDA b : b.id = a.id))

wfMissingInLocal(wfRemoteVersionIds, wfLocalVersionIds) ==
    missingIn(wfRemoteVersionIds, wfLocalVersionIds)

wfMissingInRemote(wfRemoteVersionIds, wfLocalVersionIds) ==
    missingIn(wfLocalVersionIds, wfRemoteVersionIds)

\* wfModifiedInEither with the id test of the find dropped
wfModifiedInEither_anyId(wfRemoteVersionIds, wfLocalVersionIds, options) ==
    Map(wfLocalVersionIds, LAMBDA local :
        LET mismatchingIds ==
                Find(wfRemoteVersionIds, LAMBDA r : r.versionId # local.versionId)
        IN IF mismatchingIds = Undefined
           THEN Undefined
           ELSE Some([id |-> local.id,
                      filename |-> local.filename,
                      updatedAt |-> local.updatedAt,
                      name |-> local.name,
                      versionId |-> local.versionId,
                      localId |-> local.versionId,
                      remoteId |-> mismatchingIds[1].versionId]))

\* wfModifiedInEither that always surfaces the local name
wfModifiedInEither_localName(wfRemoteVersionIds, wfLocalVersionIds, options) ==
    Map(wfLocalVersionIds, LAMBDA local :
        LET mismatchingIds ==
                Find(wfRemoteVersionIds, LAMBDA r :
                        r.id = local.id /\ r.versionId # local.versionId)
        IN IF mismatchingIds = Undefined
           THEN Undefined
           ELSE Some([id |-> local.id,
                      filename |-> local.filename,
                      updatedAt |-> local.updatedAt,
                      name |-> local.name,
                      versionId |-> IF options.preferLocalVersion
                                    THEN local.versionId
                                    ELSE mismatchingIds[1].versionId,
                      localId |-> local.versionId,
                      remoteId |-> mismatchingIds[1].versionId]))

wfModifiedInEither(wfRemoteVersionIds, wfLocalVersionIds, options) ==
    Map(wfLocalVersionIds, LAMBDA local :
        LET mismatchingIds ==
                Find(wfRemoteVersionIds, LAMBDA r :
                        r.id = local.id /\ r.versionId # local.versionId)
        IN IF mismatchingIds = Undefined
           THEN Undefined
           ELSE Some([id |-> local.id,
                      filename |-> local.filename,
                      updatedAt |-> local.updatedAt,
                      name |-> IF options.preferLocalVersion
                               THEN local.name ELSE mismatchingIds[1].name,
                      versionId |-> IF options.preferLocalVersion
                                    THEN local.versionId
                                    ELSE mismatchingIds[1].versionId,
                      localId |-> local.versionId,
                      remoteId |-> mismatchingIds[1].versionId]))

\* missingInLocalStatus that ignores the direction
missingInLocalStatus_pushOnly(options) == "deleted"

\* status of an item whose entity only the remote has
missingInLocalStatus(options) == IF options.direction = "push" THEN "deleted" ELSE "created"

\* status of an item whose entity only the database has
\* status of an item whose entity only the database has
missingInRemoteStatus(options) == IF options.direction = "push" THEN "created" ELSE "deleted"

\* itemLocation that ignores the direction
itemLocation_local(options) == "local"

itemLocation(options) == IF options.direction = "push" THEN "local" ELSE "remote"

\* wfFiles flagging the one-sided workflows as conflicts too
wfFiles_allConflict(missingInLocal, missingInRemote, modifiedInEither, options, now) ==
    Map(missingInLocal, LAMBDA item :
        SourceControlledFile(item.id, OrElse(item.name, "Workflow"), "workflow",
            missingInLocalStatus(options), itemLocation(options), TRUE,
            item.filename, OrElse(item.updatedAt, toISOString(now))))
    \o Map(missingInRemote, LAMBDA item :
        SourceControlledFile(item.id, OrElse(item.name, "Workflow"), "workflow",
            missingInRemoteStatus(options), itemLocation(options), TRUE,
            item.filename, OrElse(item.updatedAt, toISOString(now))))
    \o Map(Defined(modifiedInEither), LAMBDA item :
        SourceControlledFile(item.id, OrElse(item.name, "Workflow"), "workflow",
            "modified", itemLocation(options), TRUE,
            item.filename, OrElse(item.updatedAt, toISOString(now))))

wfFiles(missingInLocal, missingInRemote, modifiedInEither, options, now) ==
    Map(missingInLocal, LAMBDA item :
        SourceControlledFile(item.id, OrElse(item.name, "Workflow"), "workflow",
            missingInLocalStatus(options), itemLocation(options), FALSE,
            item.filename, OrElse(item.updatedAt, toISOString(now))))
    \o Map(missingInRemote, LAMBDA item :
        SourceControlledFile(item.id, OrElse(item.name, "Workflow"), "workflow",
            missingInRemoteStatus(options), itemLocation(options), FALSE,
            item.filename, OrElse(item.updatedAt, toISOString(now))))
    \o Map(Defined(modifiedInEither), LAMBDA item :
        SourceControlledFile(item.id, OrElse(item.name, "Workflow"), "workflow",
            "modified", itemLocation(options), TRUE,
            item.filename, OrElse(item.updatedAt, toISOString(now))))

credMissingInLocal(credRemoteIds, credLocalIds) == missingIn(credRemoteIds, credLocalIds)

credMissingInRemote(credRemoteIds, credLocalIds) == missingIn(credLocalIds, credRemoteIds)

\* credModifiedInEither that compares the name only
credModifiedInEither_nameOnly(credRemoteIds, credLocalIds, options) ==
    Map(credLocalIds, LAMBDA local :
        LET mismatchingCreds ==
                Find(credRemoteIds, LAMBDA r : r.id = local.id /\ r.name # local.name)
        IN IF mismatchingCreds = Undefined
           THEN Undefined
           ELSE Some([local EXCEPT !.name = IF options.preferLocalVersion
                                            THEN local.name
                                            ELSE mismatchingCreds[1].name]))

credModifiedInEither(credRemoteIds, credLocalIds, options) ==
    Map(credLocalIds, LAMBDA local :
        LET mismatchingCreds ==
                Find(credRemoteIds, LAMBDA r :
                        /\ r.id = local.id
                        /\ (r.name # local.name
                            \/ r.type # local.type
                            \/ r.nodesAccess # local.nodesAccess))
        IN IF mismatchingCreds = Undefined
           THEN Undefined
           ELSE Some([local EXCEPT !.name = IF options.preferLocalVersion
                                            THEN local.name
                                            ELSE mismatchingCreds[1].name]))

credFiles(missingInLocal, missingInRemote, modifiedInEither, options, now) ==
    Map(missingInLocal, LAMBDA item :
        SourceControlledFile(item.id, OrElse(item.name, "Credential"), "credential",
            missingInLocalStatus(options), itemLocation(options), FALSE,
            item.filename, toISOString(now)))
    \o Map(missingInRemote, LAMBDA item :
        SourceControlledFile(item.id, OrElse(item.name, "Credential"), "credential",
            missingInRemoteStatus(options), itemLocation(options), FALSE,
            item.filename, toISOString(now)))
    \o Map(Defined(modifiedInEither), LAMBDA item :
        SourceControlledFile(item.id, OrElse(item.name, "Credential"), "credential",
            "modified", itemLocation(options), TRUE,
            item.filename, toISOString(now)))

varMissingInLocal(varRemoteIds, varLocalIds) == missingIn(varRemoteIds, varLocalIds)

varMissingInRemote(varRemoteIds, varLocalIds) == missingIn(varLocalIds, varRemoteIds)

varModifiedInEither(varRemoteIds, varLocalIds, options) ==
    Map(varLocalIds, LAMBDA local :
        LET mismatchingIds ==
                Find(varRemoteIds, LAMBDA r :
                        \/ (r.id = local.id /\ r.key # local.key)
                        \/ (r.id # local.id /\ r.key = local.key))
        IN IF mismatchingIds = Undefined
           THEN Undefined
           ELSE Some(IF options.preferLocalVersion THEN local ELSE mismatchingIds[1]))

\* the array whose length the variables test reads: the mapped array itself,
\* undefined entries included
varModifiedTested(modifiedInEither) == modifiedInEither

\* varFiles that reads the two missing sets only
varFiles_missingOnly(missingInLocal, missingInRemote, modifiedInEither, options, now) ==
    IF Len(missingInLocal) > 0 \/ Len(missingInRemote) > 0
    THEN <<SourceControlledFile("variables", "variables", "variables", "modified",
               itemLocation(options), TRUE, getVariablesPath, toISOString(now))>>
    ELSE <<>>

varFiles(missingInLocal, missingInRemote, modifiedInEither, options, now) ==
    IF \/ Len(missingInLocal) > 0
       \/ Len(missingInRemote) > 0
       \/ Len(varModifiedTested(modifiedInEither)) > 0
    THEN <<SourceControlledFile("variables", "variables", "variables", "modified",
               itemLocation(options), TRUE, getVariablesPath, toISOString(now))>>
    ELSE <<>>

tagsMissingInLocal(tagMappingsRemote, tagMappingsLocal) ==
    missingIn(tagMappingsRemote.tags, tagMappingsLocal.tags)

tagsMissingInRemote(tagMappingsRemote, tagMappingsLocal) ==
    missingIn(tagMappingsLocal.tags, tagMappingsRemote.tags)

tagsModifiedInEither(tagMappingsRemote, tagMappingsLocal, options) ==
    Defined(Map(tagMappingsLocal.tags, LAMBDA local :
        LET mismatchingIds ==
                Find(tagMappingsRemote.tags, LAMBDA r :
                        r.id = local.id /\ r.name # local.name)
        IN IF mismatchingIds = Undefined
           THEN Undefined
           ELSE Some(IF options.preferLocalVersion THEN local ELSE mismatchingIds[1])))

mappingsMissingInLocal(tagMappingsRemote, tagMappingsLocal) ==
    SelectSeq(tagMappingsRemote.mappings, LAMBDA r :
        ~Has(tagMappingsLocal.mappings, LAMBDA local :
                local.tagId = r.tagId /\ local.workflowId = r.workflowId))

\* the source compares remote.workflowId with itself
mappingsMissingInRemote(tagMappingsRemote, tagMappingsLocal) ==
    SelectSeq(tagMappingsLocal.mappings, LAMBDA local :
        ~Has(tagMappingsRemote.mappings, LAMBDA r :
                r.tagId = local.tagId /\ r.workflowId = r.workflowId))

tagFiles(tMiL, tMiR, tMod, mMiL, mMiR, options, updatedAt) ==
    IF \/ Len(tMiL) > 0
       \/ Len(tMiR) > 0
       \/ Len(tMod) > 0
       \/ Len(mMiL) > 0
       \/ Len(mMiR) > 0
    THEN <<SourceControlledFile("mappings", "tags", "tags", "modified",
               itemLocation(options), TRUE, getTagsPath, updatedAt)>>
    ELSE <<>>

\* everything getStatus2 computes after the refresh, from the database d and
\* the refreshed working folder f, when `new Date()` is now
reconcile(d, f, options, now) ==
    LET wfR == getRemoteVersionIdsFromFiles(f)
        wfL == getLocalVersionIdsFromDb(d)
        wfMiL == wfMissingInLocal(wfR, wfL)
        wfMiR == wfMissingInRemote(wfR, wfL)
        wfMod == wfModifiedInEither(wfR, wfL, options)
        crR == getRemoteCredentialsFromFiles(f)
        crL == getLocalCredentialsFromDb(d)
        crMiL == credMissingInLocal(crR, crL)
        crMiR == credMissingInRemote(crR, crL)
        crMod == credModifiedInEither(crR, crL, options)
        vaR == getRemoteVariablesFromFile(f)
        vaL == getLocalVariablesFromDb(d)
        vaMiL == varMissingInLocal(vaR, vaL)
        vaMiR == varMissingInRemote(vaR, vaL)
        vaMod == varModifiedInEither(vaR, vaL, options)
        tmR == getRemoteTagsAndMappingsFromFile(f)
        tmL == getLocalTagsAndMappingsFromDb(d)
        tgMiL == tagsMissingInLocal(tmR, tmL)
        tgMiR == tagsMissingInRemote(tmR, tmL)
        tgMod == tagsModifiedInEither(tmR, tmL, options)
        mpMiL == mappingsMissingInLocal(tmR, tmL)
        mpMiR == mappingsMissingInRemote(tmR, tmL)
    IN [wfRemoteVersionIds |-> wfR,
        wfLocalVersionIds |-> wfL,
        wfMissingInLocal |-> wfMiL,
        wfMissingInRemote |-> wfMiR,
        wfModifiedInEither |-> wfMod,
        credMissingInLocal |-> crMiL,
        credMissingInRemote |-> crMiR,
        credModifiedInEither |-> crMod,
        varMissingInLocal |-> vaMiL,
        varMissingInRemote |-> vaMiR,
        varModifiedInEither |-> vaMod,
        tagsMissingInLocal |-> tgMiL,
        tagsMissingInRemote |-> tgMiR,
        tagsModifiedInEither |-> tgMod,
        mappingsMissingInLocal |-> mpMiL,
        mappingsMissingInRemote |-> mpMiR,
        sourceControlledFiles |->
            wfFiles(wfMiL, wfMiR, wfMod, options, now)
            \o credFiles(crMiL, crMiR, crMod, options, now)
            \o varFiles(vaMiL, vaMiR, vaMod, options, now)
            \o tagFiles(tgMiL, tgMiR, tgMod, mpMiL, mpMiR, options, lastUpdatedTag(d))]

\* what getStatus2 returns: the verbose record, or the changeset alone
statusValue(d, f, options, now) ==
    IF options.verbose
    THEN reconcile(d, f, options, now)
    ELSE reconcile(d, f, options, now).sourceControlledFiles

-----------------------------------------------------------------------------
(* VersionControlTransport and EntityExporter: what their operations do to  *)
(* the export tree, and how an invocation logs a call on them.              *)

Call(svc, op, arg) == [svc |-> svc, op |-> op, arg |-> arg]

NoArg == <<>>

\* sourceControlExportService.cleanWorkFolder: the exported files are removed
cleanWorkFolder(f) == EmptyTree

\* gitService.pull: the files of the remote tip are merged into the folder
pull(f, r) ==
    [wf |-> r.wf \o missingIn(f.wf, r.wf),
     cred |-> r.cred \o missingIn(f.cred, r.cred),
     var |-> IF r.var = <<>> THEN f.var ELSE r.var,
     tags |-> IF r.tags = <<>> /\ r.mappings = <<>> THEN f.tags ELSE r.tags,
     mappings |-> IF r.tags = <<>> /\ r.mappings = <<>> THEN f.mappings ELSE r.mappings]

\* gitService.resetBranch({hard: true, target: 'HEAD'}) after the pull: the
\* tracked files are those of HEAD, which the pull has set to the remote tip
resetBranchHard(f, r) == r

\* the export tree without the files of a set of paths
RemoveFiles(f, paths) ==
    [wf |-> SelectSeq(f.wf, LAMBDA e : getWorkflowExportPath(e.id) \notin paths),
     cred |-> SelectSeq(f.cred, LAMBDA e : getCredentialExportPath(e.id) \notin paths),
     var |-> IF getVariablesPath \in paths THEN <<>> ELSE f.var,
     tags |-> IF getTagsPath \in paths THEN <<>> ELSE f.tags,
     mappings |-> IF getTagsPath \in paths THEN <<>> ELSE f.mappings]

\* initIfAbsent that initialises whatever the handle
initIfAbsent_always(g) == <<Call("git", "initService", NoArg)>>

\* initGitService, run when the handle is absent
initIfAbsent(g) == IF g THEN <<>> ELSE <<Call("git", "initService", NoArg)>>

\* the working-folder refresh at the head of getStatus2
refreshCalls ==
    <<Call("export", "cleanWorkFolder", NoArg),
      Call("git", "pull", [ffOnly |-> FALSE]),
      Call("git", "resetBranch", [hard |-> TRUE, target |-> "HEAD"])>>

refreshed(f, r) == resetBranchHard(pull(cleanWorkFolder(f), r), r)

\* the snapshot reads of getStatus2, in the order of the source
readCalls ==
    <<Call("import", "getRemoteVersionIdsFromFiles", NoArg),
      Call("import", "getLocalVersionIdsFromDb", NoArg),
      Call("import", "getRemoteCredentialsFromFiles", NoArg),
      Call("import", "getLocalCredentialsFromDb", NoArg),
      Call("import", "getRemoteVariablesFromFile", NoArg),
      Call("import", "getLocalVariablesFromDb", NoArg),
      Call("db", "Tag.find", NoArg),
      Call("import", "getRemoteTagsAndMappingsFromFile", NoArg),
      Call("import", "getLocalTagsAndMappingsFromDb", NoArg)>>

\* getStatus2Calls with the snapshots read ahead of the refresh
getStatus2Calls_readFirst(g) == initIfAbsent(g) \o readCalls \o refreshCalls

\* the calls of one getStatus2 run, entered with the handle in state g
getStatus2Calls(g) == initIfAbsent(g) \o refreshCalls \o readCalls

Invocation(op, options, at, outcome, value) ==
    [op |-> op, options |-> options, at |-> at, outcome |-> outcome, value |-> value]

NoInvocation == Invocation("none", NoArg, 0, "none", NoArg)

\* A collaborator call that rejects: the nth call of an operation, counted
\* within one invocation.  NoFailure names no call.
Failure(op, nth) == [op |-> op, nth |-> nth]

NoFailure == Failure("none", 1)

\* the position in a planned call sequence of the call that rejects, 0 when
\* the sequence holds no such call
FailsAt(plan, failing) ==
    LET at == {i \in 1..Len(plan) :
                  /\ plan[i].op = failing.op
                  /\ Cardinality({j \in 1..i : plan[j].op = failing.op}) = failing.nth}
    IN IF at = {} THEN 0 ELSE CHOOSE i \in at : TRUE

\* the calls invoked, the rejecting one being the last
Attempted(plan, failing) ==
    IF FailsAt(plan, failing) = 0 THEN plan ELSE SubSeq(plan, 1, FailsAt(plan, failing))

\* the calls that returned
Completed(plan, failing) ==
    IF FailsAt(plan, failing) = 0 THEN plan ELSE SubSeq(plan, 1, FailsAt(plan, failing) - 1)

\* the message of the error a rejecting call raises
ErrorOf(call) == "Error: " \o call.op

\* the errors raised by the calls of a plan
Raised(plan, failing) ==
    IF FailsAt(plan, failing) = 0 THEN <<>> ELSE <<ErrorOf(plan[FailsAt(plan, failing)])>>

HasCall(cs, op) == \E i \in 1..Len(cs) : cs[i].op = op

\* the working folder after the refresh calls that returned
refreshedBy(done, f, r) ==
    IF HasCall(done, "resetBranch") THEN refreshed(f, r)
    ELSE IF HasCall(done, "pull") THEN pull(cleanWorkFolder(f), r)
    ELSE IF HasCall(done, "cleanWorkFolder") THEN cleanWorkFolder(f)
    ELSE f

-----------------------------------------------------------------------------
(* The invocations in flight.  SpecRace runs a handler one collaborator     *)
(* call at a time, two invocations side by side, and follows the git index *)
(* they share; the other specifications take every handler as one action   *)
(* and start with nothing in flight.                                       *)

Invocations == {1, 2}

Idle == [op |-> "none"]

NoCommit == [by |-> 0, covers |-> {}, staged |-> {}, alone |-> TRUE, between |-> {}]

NothingInFlight ==
    /\ index = {}
    /\ flight = [i \in Invocations |-> Idle]
    /\ committed = NoCommit

-----------------------------------------------------------------------------
(* The handlers. *)

StatusOptions ==
    [direction : {"push", "pull"}, preferLocalVersion : BOOLEAN, verbose : BOOLEAN]

\* no call of getStatus2 is guarded by a try: the first rejection ends it
getStatus2(options, failing) ==
    LET plan == getStatus2Calls(git)
        k == FailsAt(plan, failing)
        done == Completed(plan, failing)
    IN /\ calls' = Attempted(plan, failing)
       /\ git' = (git \/ HasCall(done, "initService"))
       /\ folder' = refreshedBy(done, folder, remote)
       /\ ret' = IF k = 0
                 THEN Invocation("getStatus2", options, clock, "return",
                                 statusValue(db, folder', options, clock))
                 ELSE Invocation("getStatus2", options, clock, "throw", ErrorOf(plan[k]))
       /\ raised' = Raised(plan, failing)
       /\ UNCHANGED <<index, flight, committed, db, remote, clock, prefs, keyPair, branches>>

\* init(): the handle is reset, then set again when the feature is licensed
\* and enabled
init(licensedAndEnabled) ==
    /\ calls' = <<Call("git", "resetService", NoArg)>>
                \o (IF licensedAndEnabled
                    THEN <<Call("git", "initService", NoArg)>> ELSE <<>>)
    /\ git' = licensedAndEnabled
    /\ ret' = Invocation("init", [licensedAndEnabled |-> licensedAndEnabled],
                         clock, "return", NoArg)
    /\ raised' = <<>>
    /\ UNCHANGED <<index, flight, committed, db, folder, remote, clock, prefs, keyPair, branches>>

\* time passes
Tick ==
    /\ clock < MaxClock
    /\ clock' = clock + 1
    /\ UNCHANGED <<index, flight, committed, db, folder, remote, git, prefs, keyPair, branches, calls, raised, ret>>

-----------------------------------------------------------------------------
(* pushWorkfolder2 *)

\* options.fileNames ?? []
suppliedFiles(options) ==
    IF options.fileNames = Undefined THEN <<>> ELSE options.fileNames[1]

\* computesStatus when push determines the file status on every call
computesStatus_always(options) == TRUE

\* computesStatus as options.fileNames === undefined
computesStatus_absentOnly(options) == options.fileNames = Undefined

\* diffResult.length === 0: push determines the file status itself
computesStatus(options) == Len(suppliedFiles(options)) = 0

\* the options of the getStatus2 call that push makes
pushStatusOptions == [direction |-> "push", preferLocalVersion |-> TRUE, verbose |-> FALSE]

\* barrierApplies as options.force === false
barrierApplies_strictFalse(options) == options.force = "false"

\* !options.force
barrierApplies(options) == options.force # "true"

\* possibleConflicts that takes every item for a conflict
possibleConflicts_all(diffResult) == diffResult

\* diffResult?.filter((file) => file.conflict)
possibleConflicts(diffResult) == SelectSeq(diffResult, LAMBDA file : file.conflict)

\* the sets stage() hands to gitService.stage, built from options.fileNames
mergedFileNames(options) ==
    {e.file : e \in {x \in Range(suppliedFiles(options)) : x.status # "deleted"}}

filesMarkedToBeDeleted(options) ==
    {e.file : e \in {x \in Range(suppliedFiles(options)) : x.status = "deleted"}}

\* unstage(): resetBranch(), and status() when that returns nothing
unstageCalls(resetResultEmpty) ==
    <<Call("git", "resetBranch", NoArg)>>
    \o (IF resetResultEmpty THEN <<Call("git", "status", NoArg)>> ELSE <<>>)

\* stageCalls without the unstage ahead of the staging
stageCalls_withoutUnstage(options, resetResultEmpty) ==
    <<Call("git", "stage", [add |-> mergedFileNames(options),
                            del |-> filesMarkedToBeDeleted(options)])>>

\* stage(options)
stageCalls(options, resetResultEmpty) ==
    unstageCalls(resetResultEmpty)
    \o <<Call("git", "stage", [add |-> mergedFileNames(options),
                               del |-> filesMarkedToBeDeleted(options)])>>

\* markPushed marking every item of the changeset
markPushed_all(options, diffResult) ==
    Map(diffResult, LAMBDA item : [pushed |-> TRUE] @@ item)

\* diffResult[i].pushed = true for the items whose file is among options.fileNames
markPushed(options, diffResult) ==
    IF options.fileNames = Undefined
    THEN diffResult
    ELSE Map(diffResult, LAMBDA item :
             IF Has(options.fileNames[1], LAMBDA file : file.file = item.file)
             THEN [pushed |-> TRUE] @@ item
             ELSE item)

commitCall(options) ==
    Call("git", "commit", [message |-> OrElse(options.message, "Updated Workfolder")])

pushCall(options, branchName) ==
    Call("git", "push", [branch |-> branchName, force |-> (options.force = "true")])

\* what gitService.push returns
PushResult(branchName) == Some([pushed |-> branchName])

\* lines 275-280 when the branch is read-only: the lazy initialisation, then
\* the error
pushThrowsReadOnly(options, failing) ==
    LET plan == initIfAbsent(git)
        k == FailsAt(plan, failing)
    IN /\ calls' = plan
       /\ git' = (git \/ k = 0)
       /\ ret' = Invocation("pushWorkfolder2", options, clock, "throw",
                            IF k = 0 THEN "Cannot push onto read-only branch."
                            ELSE ErrorOf(plan[k]))
       /\ raised' = Raised(plan, failing)
       /\ UNCHANGED <<index, flight, committed, db, folder, remote, clock, prefs, keyPair, branches>>

\* lines 275-290: the lazy initialisation and the changeset
changesetCalls(options) ==
    initIfAbsent(git) \o (IF computesStatus(options) THEN getStatus2Calls(TRUE) ELSE <<>>)

\* proceedCalls committing ahead of the staging
proceedCalls_commitFirst(options, resetResultEmpty) ==
    <<commitCall(options)>>
    \o stageCalls(options, resetResultEmpty)
    \o <<pushCall(options, prefs.branchName)>>

\* lines 307-322: stage, commit and push
proceedCalls(options, resetResultEmpty) ==
    stageCalls(options, resetResultEmpty)
    \o <<commitCall(options), pushCall(options, prefs.branchName)>>

\* lines 282-329: the changeset, the conflict barrier, stage, commit and push
pushChangeset(options, resetResultEmpty, failing) ==
    LET computes == computesStatus(options)
        c1 == changesetCalls(options)
        k1 == FailsAt(c1, failing)
        f1 == refreshedBy(Completed(c1, failing), folder, remote)
        diffResult == IF computes
                      THEN statusValue(db, f1, pushStatusOptions, clock)
                      ELSE suppliedFiles(options)
        blocked == barrierApplies(options) /\ Len(possibleConflicts(diffResult)) > 0
        plan == c1 \o proceedCalls(options, resetResultEmpty)
        k == FailsAt(plan, failing)
        done == Completed(plan, failing)
        f2 == RemoveFiles(f1, filesMarkedToBeDeleted(options))
    IN /\ git' = (git \/ HasCall(Completed(c1, failing), "initService"))
       /\ UNCHANGED <<index, flight, committed, db, clock, prefs, keyPair, branches>>
       /\ IF k1 # 0
          THEN /\ calls' = Attempted(c1, failing)
               /\ raised' = Raised(c1, failing)
               /\ ret' = Invocation("pushWorkfolder2", options, clock, "throw",
                                    ErrorOf(c1[k1]))
               /\ folder' = f1
               /\ UNCHANGED remote
          ELSE IF blocked
          THEN /\ calls' = c1
               /\ raised' = <<>>
               /\ ret' = Invocation("pushWorkfolder2", options, clock, "return",
                                    [status |-> 409, pushResult |-> Undefined,
                                     diffResult |-> diffResult])
               /\ folder' = f1
               /\ UNCHANGED remote
          ELSE /\ calls' = Attempted(plan, failing)
               /\ raised' = Raised(plan, failing)
               /\ ret' = IF k = 0
                         THEN Invocation("pushWorkfolder2", options, clock, "return",
                                         [status |-> 200,
                                          pushResult |-> PushResult(prefs.branchName),
                                          diffResult |-> markPushed(options, diffResult)])
                         ELSE Invocation("pushWorkfolder2", options, clock, "throw",
                                         ErrorOf(plan[k]))
               /\ folder' = IF HasCall(done, "stage") THEN f2 ELSE f1
               /\ remote' = IF HasCall(done, "push") THEN f2 ELSE remote

\* pushWorkfolder2 without the read-only check
pushWorkfolder2_unguarded(options, resetResultEmpty, failing) ==
    pushChangeset(options, resetResultEmpty, failing)

pushWorkfolder2(options, resetResultEmpty, failing) ==
    IF prefs.branchReadOnly
    THEN pushThrowsReadOnly(options, failing)
    ELSE pushChangeset(options, resetResultEmpty, failing)

\* the changeset items a caller may hand to push
PushItems ==
    {SourceControlledFile("W1", "A", "workflow", "created", "local", FALSE,
                          getWorkflowExportPath("W1"), toISOString(0)),
     SourceControlledFile("W1", "A", "workflow", "modified", "local", TRUE,
                          getWorkflowExportPath("W1"), toISOString(0)),
     SourceControlledFile("C1", "A", "credential", "deleted", "local", FALSE,
                          getCredentialExportPath("C1"), toISOString(0))}

FileNameChoices ==
    {Undefined} \cup {Some(s) : s \in UNION {[1..n -> PushItems] : n \in 0..MaxFiles}}

PushOptions ==
    [fileNames : FileNameChoices,
     message : {NoValue, "msg"},
     force : {"undefined", "false", "true"}]

-----------------------------------------------------------------------------
(* The repository handlers: disconnect, initializeRepository, getBranches, *)
(* setBranch, resetWorkfolder, pullWorkfolder2, setGitUserDetails.          *)

BranchNames == {"main", "dev"}

\* sourceControlPreferencesService.setPreferences: the given fields replace
\* the stored ones
setPreferences(p, partial) == partial @@ p

\* disconnect(): every step is inside one try, whose catch rethrows
\* disconnectCalls resetting the handle ahead of the other steps
disconnectCalls_handleFirst(options) ==
    <<Call("git", "resetService", NoArg),
      Call("prefs", "setPreferences", [connected |-> FALSE, branchName |-> ""]),
      Call("export", "deleteRepositoryFolder", NoArg)>>
    \o (IF ~options.keepKeyPair
        THEN <<Call("prefs", "deleteKeyPairFiles", NoArg)>> ELSE <<>>)

disconnectCalls(options) ==
    <<Call("prefs", "setPreferences", [connected |-> FALSE, branchName |-> ""]),
      Call("export", "deleteRepositoryFolder", NoArg)>>
    \o (IF ~options.keepKeyPair
        THEN <<Call("prefs", "deleteKeyPairFiles", NoArg)>> ELSE <<>>)
    \o <<Call("git", "resetService", NoArg)>>

disconnect(options, failing) ==
    LET plan == disconnectCalls(options)
        k == FailsAt(plan, failing)
        done == Completed(plan, failing)
    IN /\ calls' = Attempted(plan, failing)
       /\ prefs' = IF HasCall(done, "setPreferences")
                   THEN setPreferences(prefs, [connected |-> FALSE, branchName |-> ""])
                   ELSE prefs
       /\ folder' = IF HasCall(done, "deleteRepositoryFolder") THEN EmptyTree ELSE folder
       /\ keyPair' = (keyPair /\ ~HasCall(done, "deleteKeyPairFiles"))
       /\ git' = (git /\ ~HasCall(done, "resetService"))
       /\ ret' = IF k = 0
                 THEN Invocation("disconnect", options, clock, "return", prefs')
                 ELSE Invocation("disconnect", options, clock, "throw",
                                 "Failed to disconnect from source control: "
                                 \o ErrorOf(plan[k]))
       /\ raised' = Raised(plan, failing)
       /\ UNCHANGED <<index, flight, committed, db, remote, clock, branches>>

\* what a branch listing returns
BranchList(bs) == [branches |-> bs]

\* getBranches(): the lazy initialisation, fetch, then the listing
getBranchesCalls(g) ==
    initIfAbsent(g) \o <<Call("git", "fetch", NoArg), Call("git", "getBranches", NoArg)>>

getBranches(failing) ==
    LET plan == getBranchesCalls(git)
        k == FailsAt(plan, failing)
    IN /\ calls' = Attempted(plan, failing)
       /\ git' = (git \/ HasCall(Completed(plan, failing), "initService"))
       /\ ret' = IF k = 0
                 THEN Invocation("getBranches", NoArg, clock, "return", BranchList(branches))
                 ELSE Invocation("getBranches", NoArg, clock, "throw", ErrorOf(plan[k]))
       /\ raised' = Raised(plan, failing)
       /\ UNCHANGED <<index, flight, committed, db, folder, remote, clock, prefs, keyPair, branches>>

\* setBranch(branch): the preferences are written before the transport
\* switches
setBranchCalls(g, branch) ==
    initIfAbsent(g)
    \o <<Call("prefs", "setPreferences", [branchName |-> branch, connected |-> branch # ""]),
         Call("git", "setBranch", branch)>>

setBranch(branch, failing) ==
    LET plan == setBranchCalls(git, branch)
        k == FailsAt(plan, failing)
        done == Completed(plan, failing)
    IN /\ calls' = Attempted(plan, failing)
       /\ git' = (git \/ HasCall(done, "initService"))
       /\ prefs' = IF HasCall(done, "setPreferences")
                   THEN setPreferences(prefs, [branchName |-> branch, connected |-> branch # ""])
                   ELSE prefs
       /\ ret' = IF k = 0
                 THEN Invocation("setBranch", branch, clock, "return", BranchList(branches))
                 ELSE Invocation("setBranch", branch, clock, "throw", ErrorOf(plan[k]))
       /\ raised' = Raised(plan, failing)
       /\ UNCHANGED <<index, flight, committed, db, folder, remote, clock, keyPair, branches>>

\* pullWorkfolder2 clearing the branch of the preferences
pullWorkfolder2_clearingBranch(options, failing) ==
    LET plan == initIfAbsent(git)
        k == FailsAt(plan, failing)
    IN /\ calls' = plan
       /\ git' = (git \/ k = 0)
       /\ prefs' = setPreferences(prefs, [branchName |-> "", connected |-> FALSE])
       /\ ret' = IF k = 0
                 THEN Invocation("pullWorkfolder2", options, clock, "return",
                                 [status |-> 200, diffResult |-> <<>>])
                 ELSE Invocation("pullWorkfolder2", options, clock, "throw", ErrorOf(plan[k]))
       /\ raised' = Raised(plan, failing)
       /\ UNCHANGED <<index, flight, committed, db, folder, remote, clock, keyPair, branches>>

\* pullWorkfolder2(): the lazy initialisation, then a fixed result
pullWorkfolder2(options, failing) ==
    LET plan == initIfAbsent(git)
        k == FailsAt(plan, failing)
    IN /\ calls' = plan
       /\ git' = (git \/ k = 0)
       /\ ret' = IF k = 0
                 THEN Invocation("pullWorkfolder2", options, clock, "return",
                                 [status |-> 200, diffResult |-> <<>>])
                 ELSE Invocation("pullWorkfolder2", options, clock, "throw", ErrorOf(plan[k]))
       /\ raised' = Raised(plan, failing)
       /\ UNCHANGED <<index, flight, committed, db, folder, remote, clock, prefs, keyPair, branches>>

\* setGitUserDetails(name, email)
setGitUserDetails(failing) ==
    LET plan == initIfAbsent(git) \o <<Call("git", "setGitUserDetails", NoArg)>>
        k == FailsAt(plan, failing)
    IN /\ calls' = Attempted(plan, failing)
       /\ git' = (git \/ HasCall(Completed(plan, failing), "initService"))
       /\ ret' = IF k = 0
                 THEN Invocation("setGitUserDetails", NoArg, clock, "return", NoArg)
                 ELSE Invocation("setGitUserDetails", NoArg, clock, "throw", ErrorOf(plan[k]))
       /\ raised' = Raised(plan, failing)
       /\ UNCHANGED <<index, flight, committed, db, folder, remote, clock, prefs, keyPair, branches>>

\* sourceControlImportService.importFromWorkFolder: the records of the export
\* tree are written to the database, rows without a file are kept
importFromWorkFolder(d, f, now) ==
    [wf |-> Map(f.wf, LAMBDA e : [id |-> e.id, versionId |-> e.versionId,
                                  name |-> e.name, updatedAt |-> now])
            \o missingIn(d.wf, f.wf),
     cred |-> f.cred \o missingIn(d.cred, f.cred),
     var |-> f.var \o missingIn(d.var, f.var),
     tags |-> Map(f.tags, LAMBDA e : [id |-> e.id, name |-> e.name, updatedAt |-> now])
              \o missingIn(d.tags, f.tags),
     mappings |-> f.mappings
                  \o SelectSeq(d.mappings, LAMBDA m : m \notin Range(f.mappings))]

\* gitService.getCurrentBranch(): the branch of the preferences and the ref
\* it tracks
getCurrentBranch(p) == [current |-> p.branchName, remote |-> "origin/" \o p.branchName]

PullOptions == [importAfterPull : BOOLEAN]

\* resetWorkfolderCalls pulling ahead of the reset
resetWorkfolderCalls_pullFirst(g, p, options) ==
    initIfAbsent(g)
    \o <<Call("git", "getCurrentBranch", NoArg),
         Call("export", "cleanWorkFolder", NoArg),
         Call("git", "pull", NoArg),
         Call("git", "resetBranch", [hard |-> TRUE, target |-> getCurrentBranch(p).remote])>>
    \o (IF options.importAfterPull
        THEN <<Call("import", "importFromWorkFolder", options)>> ELSE <<>>)

\* resetWorkfolder(options)
resetWorkfolderCalls(g, p, options) ==
    initIfAbsent(g)
    \o <<Call("git", "getCurrentBranch", NoArg),
         Call("export", "cleanWorkFolder", NoArg),
         Call("git", "resetBranch", [hard |-> TRUE, target |-> getCurrentBranch(p).remote]),
         Call("git", "pull", NoArg)>>
    \o (IF options.importAfterPull
        THEN <<Call("import", "importFromWorkFolder", options)>> ELSE <<>>)

resetWorkfolder(options, failing) ==
    LET plan == resetWorkfolderCalls(git, prefs, options)
        k == FailsAt(plan, failing)
        done == Completed(plan, failing)
    IN /\ calls' = Attempted(plan, failing)
       /\ git' = (git \/ HasCall(done, "initService"))
       /\ folder' = IF HasCall(done, "pull") THEN pull(resetBranchHard(EmptyTree, remote), remote)
                    ELSE IF HasCall(done, "resetBranch") THEN resetBranchHard(EmptyTree, remote)
                    ELSE IF HasCall(done, "cleanWorkFolder") THEN cleanWorkFolder(folder)
                    ELSE folder
       /\ db' = IF HasCall(done, "importFromWorkFolder")
                THEN importFromWorkFolder(db, folder', clock)
                ELSE db
       /\ ret' = IF k = 0
                 THEN Invocation("resetWorkfolder", options, clock, "return",
                                 IF options.importAfterPull
                                 THEN Some("ImportResult") ELSE Undefined)
                 ELSE Invocation("resetWorkfolder", options, clock, "throw", ErrorOf(plan[k]))
       /\ raised' = Raised(plan, failing)
       /\ UNCHANGED <<index, flight, committed, remote, clock, prefs, keyPair, branches>>

\* String.prototype.includes
includes(message, needle) ==
    \E i \in 1..(Len(message) - Len(needle) + 1) :
        SubSeq(message, i, i + Len(needle) - 1) = needle

\* one attempt of initializeRepository to list the branches: the call that
\* rejects, if any, and the message of its error
Listing(at, message) == [at |-> at, message |-> message]

ListingOk == Listing("none", "")

ListingOutcomes ==
    {ListingOk}
    \cup {Listing(at, m) :
              at \in {"fetch", "getBranches"},
              m \in {"Warning: Permanently added 'host' (ED25519) to the list of known hosts.",
                     "Warning: Permanently added 'host'. fatal: Could not read.",
                     "fatal: Could not read from remote repository."}}

\* the calls one listing attempt makes on the transport
listingCalls(outcome) ==
    IF outcome.at = "fetch"
    THEN <<Call("git", "fetch", NoArg)>>
    ELSE <<Call("git", "fetch", NoArg), Call("git", "getBranches", NoArg)>>

\* retries on every failure of the listing
retries_always(outcome) == outcome # ListingOk

\* line 112: the retry condition
retries(outcome) ==
    outcome # ListingOk /\ includes(outcome.message, "Warning: Permanently added")

\* bootstrapCalls with a push that is not forced
bootstrapCalls_plainPush(preferences) ==
    <<Call("fs", "writeFileSync", "README.md"),
      Call("git", "stage", [add |-> {"README.md"}, del |-> {}]),
      Call("git", "commit", [message |-> "Initial commit"]),
      Call("git", "push", [branch |-> preferences.branchName, force |-> FALSE]),
      Call("git", "fetch", NoArg),
      Call("git", "getBranches", NoArg),
      Call("git", "setBranch", preferences.branchName)>>

\* lines 124-133: the bootstrap of an empty remote
bootstrapCalls(preferences) ==
    <<Call("fs", "writeFileSync", "README.md"),
      Call("git", "stage", [add |-> {"README.md"}, del |-> {}]),
      Call("git", "commit", [message |-> "Initial commit"]),
      Call("git", "push", [branch |-> preferences.branchName, force |-> TRUE]),
      Call("git", "fetch", NoArg),
      Call("git", "getBranches", NoArg),
      Call("git", "setBranch", preferences.branchName)>>

\* lines 119-143: what follows the listing
afterListingCalls(preferences, bs) ==
    IF preferences.branchName \in bs
    THEN <<Call("git", "setBranch", preferences.branchName)>>
    ELSE IF bs = {}
    THEN bootstrapCalls(preferences)
    ELSE <<Call("prefs", "setPreferences", [branchName |-> "", connected |-> TRUE])>>

\* a try/catch that rethrows nothing
swallowed_never(bootstrap, k) == FALSE

\* lines 123-137: the try/catch around the bootstrap catches the error of its
\* k-th call, when one rejects
swallowed(bootstrap, k) == bootstrap /\ k # 0

\* initializeRepository(preferences, user).  `first` and `second` are the
\* outcomes of the listing and of its retry; `failing` names a rejecting call
\* among the others.
initializeRepository(preferences, first, second, failing) ==
    LET head == initIfAbsent(git) \o <<Call("git", "initRepository", preferences)>>
        kHead == FailsAt(head, failing)
        listed == listingCalls(first)
                  \o (IF retries(first) THEN listingCalls(second) ELSE <<>>)
        listingErrors == (IF first = ListingOk THEN <<>> ELSE <<first.message>>)
                         \o (IF retries(first) /\ second # ListingOk
                             THEN <<second.message>> ELSE <<>>)
        listingError == IF first = ListingOk THEN ""
                        ELSE IF ~retries(first) THEN first.message
                        ELSE second.message
        tail == afterListingCalls(preferences, branches)
        kTail == FailsAt(tail, failing)
        done == Completed(tail, failing)
        bootstrap == preferences.branchName \notin branches /\ branches = {}
        pushed == bootstrap /\ HasCall(done, "push")
        relisted == bootstrap /\ HasCall(done, "getBranches")
    IN /\ UNCHANGED <<index, flight, committed, db, folder, clock, keyPair>>
       /\ git' = (git \/ HasCall(Completed(head, failing), "initService"))
       /\ IF kHead # 0
          THEN /\ calls' = Attempted(head, failing)
               /\ raised' = Raised(head, failing)
               /\ ret' = Invocation("initializeRepository", preferences, clock, "throw",
                                    ErrorOf(head[kHead]))
               /\ UNCHANGED <<prefs, branches, remote>>
          ELSE IF listingError # ""
          THEN /\ calls' = head \o listed
               /\ raised' = listingErrors
               /\ ret' = Invocation("initializeRepository", preferences, clock, "throw",
                                    listingError)
               /\ UNCHANGED <<prefs, branches, remote>>
          ELSE /\ calls' = head \o listed \o Attempted(tail, failing)
                           \o (IF swallowed(bootstrap, kTail)
                               THEN <<Call("log", "error",
                                           "Failed to create initial commit: "
                                           \o ErrorOf(tail[kTail]))>>
                               ELSE <<>>)
               /\ raised' = listingErrors \o Raised(tail, failing)
               /\ branches' = IF pushed THEN {preferences.branchName} ELSE branches
               /\ remote' = IF pushed THEN EmptyTree ELSE remote
               /\ prefs' = IF HasCall(done, "setPreferences")
                           THEN setPreferences(prefs, [branchName |-> "", connected |-> TRUE])
                           ELSE prefs
               /\ ret' = IF kTail # 0 /\ ~swallowed(bootstrap, kTail)
                         THEN Invocation("initializeRepository", preferences, clock,
                                         "throw", ErrorOf(tail[kTail]))
                         ELSE Invocation("initializeRepository", preferences, clock,
                                         "return",
                                         BranchList(IF relisted THEN branches' ELSE branches))

-----------------------------------------------------------------------------
(* The snapshots the specifications start from. *)

wfRow(id, versionId) == [id |-> id, versionId |-> versionId, name |-> "A", updatedAt |-> 0]
wfFile(id, versionId, name) == [id |-> id, versionId |-> versionId, name |-> name]
credential(id, name, type, nodesAccess) ==
    [id |-> id, name |-> name, type |-> type, nodesAccess |-> nodesAccess]
variable(id, key, value) == [id |-> id, key |-> key, value |-> value]
tagRow(id) == [id |-> id, name |-> "A", updatedAt |-> 0]
tagFile(id, name) == [id |-> id, name |-> name]
mapping(tagId, workflowId) == [tagId |-> tagId, workflowId |-> workflowId]

Placed(side, kind, rec) == [side |-> side, kind |-> kind, rec |-> rec]

\* one record of one kind on one side
Placements ==
    {Placed("local", "wf", wfRow(i, v)) : i \in WorkflowIds, v \in VersionIds}
    \cup {Placed("remote", "wf", wfFile(i, v, n)) :
              i \in WorkflowIds, v \in VersionIds, n \in Names}
    \cup {Placed("local", "cred", credential(i, "A", "t1", <<>>)) : i \in CredentialIds}
    \cup {Placed("remote", "cred", c) :
              c \in UNION {{credential(i, "A", "t1", <<>>),
                            credential(i, "B", "t1", <<>>),
                            credential(i, "A", "t2", <<>>),
                            credential(i, "A", "t1", <<"node">>)} : i \in CredentialIds}}
    \cup {Placed("local", "var", variable(i, k, "x")) : i \in VariableIds, k \in Keys}
    \cup {Placed("remote", "var", variable(i, k, v)) :
              i \in VariableIds, k \in Keys, v \in Values}
    \cup {Placed("local", "tags", tagRow(i)) : i \in TagIds}
    \cup {Placed("remote", "tags", tagFile(i, n)) : i \in TagIds, n \in Names}
    \cup {Placed(sd, "mappings", mapping(t, w)) :
              sd \in {"local", "remote"}, t \in TagIds, w \in WorkflowIds}

\* the records a sequence of placements puts into one kind of one side
Placing(ps, side, kind) ==
    Map(SelectSeq(ps, LAMBDA p : p.side = side /\ p.kind = kind), LAMBDA p : p.rec)

TreeOf(ps, side) ==
    [wf |-> Placing(ps, side, "wf"),
     cred |-> Placing(ps, side, "cred"),
     var |-> Placing(ps, side, "var"),
     tags |-> Placing(ps, side, "tags"),
     mappings |-> Placing(ps, side, "mappings")]

\* ids are unique per snapshot, and so are mapping rows
UniqueIds(s) == \A i, j \in 1..Len(s) : s[i].id = s[j].id => i = j

WellFormed(t) ==
    /\ UniqueIds(t.wf)
    /\ UniqueIds(t.cred)
    /\ UniqueIds(t.var)
    /\ UniqueIds(t.tags)
    /\ \A i, j \in 1..Len(t.mappings) : t.mappings[i] = t.mappings[j] => i = j

\* the files an export of the database rows writes
exported(d) ==
    [wf |-> Map(d.wf, LAMBDA row : wfFile(row.id, row.versionId, row.name)),
     cred |-> d.cred,
     var |-> d.var,
     tags |-> Map(d.tags, LAMBDA row : tagFile(row.id, row.name)),
     mappings |-> d.mappings]

\* the snapshot pairs of Spec: in sync, scenarios A, B and C of the
\* specification, a workflow only the database has, and a workflow only the
\* remote has next to a modified one
Scenarios ==
    {<<Placed("local", "wf", wfRow("W1", "v1")),
       Placed("remote", "wf", wfFile("W1", "v1", "A"))>>,
     <<Placed("local", "wf", wfRow("W1", "v2")),
       Placed("remote", "wf", wfFile("W1", "v1", "B"))>>,
     <<Placed("remote", "cred", credential("C1", "A", "t1", <<>>))>>,
     <<Placed("local", "var", variable("1", "k1", "x")),
       Placed("remote", "var", variable("1", "k1", "y"))>>,
     <<Placed("local", "wf", wfRow("W1", "v1"))>>,
     <<Placed("local", "wf", wfRow("W1", "v2")),
       Placed("remote", "wf", wfFile("W1", "v1", "A")),
       Placed("remote", "wf", wfFile("W2", "v1", "A"))>>}

Preferences(branchName, connected, branchReadOnly) ==
    [branchName |-> branchName, connected |-> connected,
     branchReadOnly |-> branchReadOnly]

-----------------------------------------------------------------------------
(* Spec: the service. *)

Init ==
    /\ \E ps \in Scenarios :
          /\ db = TreeOf(ps, "local")
          /\ remote = TreeOf(ps, "remote")
    /\ folder \in {EmptyTree, remote, exported(db)}
    /\ clock = 0
    /\ git = FALSE
    /\ \E ro \in BOOLEAN : prefs = Preferences("main", TRUE, ro)
    /\ keyPair = TRUE
    /\ branches = {"main"}
    /\ calls = <<>>
    /\ raised = <<>>
    /\ ret = NoInvocation
    /\ NothingInFlight

Next ==
    \/ \E le \in BOOLEAN : init(le)
    \/ \E o \in StatusOptions : getStatus2(o, NoFailure)
    \/ \E o \in PushOptions, e \in BOOLEAN : pushWorkfolder2(o, e, NoFailure)
    \/ Tick

Spec == Init /\ [][Next]_vars

(* SpecDiff: getStatus2 over every pair of snapshots of at most MaxEntities *)
(* records, the working folder already at the remote tip.                   *)

InitDiff ==
    /\ \E n \in 0..MaxEntities : \E ps \in [1..n -> Placements] :
          /\ WellFormed(TreeOf(ps, "local"))
          /\ WellFormed(TreeOf(ps, "remote"))
          /\ db = TreeOf(ps, "local")
          /\ remote = TreeOf(ps, "remote")
    /\ folder = remote
    /\ clock = 0
    /\ git = FALSE
    /\ prefs = Preferences("main", TRUE, FALSE)
    /\ keyPair = TRUE
    /\ branches = {"main"}
    /\ calls = <<>>
    /\ raised = <<>>
    /\ ret = NoInvocation
    /\ NothingInFlight

NextDiff == \E o \in StatusOptions : getStatus2(o, NoFailure)

SpecDiff == InitDiff /\ [][NextDiff]_vars

\* the rejections a handler with these planned calls can meet
FailurePoints(plan) ==
    {NoFailure}
    \cup {Failure(plan[i].op, Cardinality({j \in 1..i : plan[j].op = plan[i].op})) :
              i \in 1..Len(plan)}

\* scenario A of the specification: workflow W1 changed on both sides
ScenarioA ==
    <<Placed("local", "wf", wfRow("W1", "v2")),
      Placed("remote", "wf", wfFile("W1", "v1", "B"))>>

(* SpecFail: status and push, each collaborator call free to reject.        *)

InitFail ==
    /\ db = TreeOf(ScenarioA, "local")
    /\ remote = TreeOf(ScenarioA, "remote")
    /\ folder \in {remote, exported(db)}
    /\ clock = 0
    /\ git = FALSE
    /\ \E ro \in BOOLEAN : prefs = Preferences("main", TRUE, ro)
    /\ keyPair = TRUE
    /\ branches = {"main"}
    /\ calls = <<>>
    /\ raised = <<>>
    /\ ret = NoInvocation
    /\ NothingInFlight

\* push options with the default commit message
DefaultMessageOptions == {o \in PushOptions : o.message = NoValue}

\* the rejections SpecFail explores: of the snapshot reads, the first and
\* the last one only
ExploredFailures(plan) ==
    {f \in FailurePoints(plan) :
        f.op \notin {c.op : c \in Range(SubSeq(readCalls, 2, Len(readCalls) - 1))}}

NextFail ==
    \/ \E o \in StatusOptions :
          \E f \in ExploredFailures(getStatus2Calls(git)) : getStatus2(o, f)
    \/ \E o \in PushOptions, e \in BOOLEAN :
          \E f \in ExploredFailures(changesetCalls(o) \o proceedCalls(o, e)) :
             pushWorkfolder2(o, e, f)

SpecFail == InitFail /\ [][NextFail]_vars

(* SpecRepo: the handlers of the repository's life cycle, each collaborator *)
(* call free to reject, over remotes with and without the configured        *)
(* branch.                                                                  *)

InitRepo ==
    /\ db = TreeOf(ScenarioA, "local")
    /\ \E bs \in {{}, {"dev"}, {"main"}} :
          /\ branches = bs
          /\ remote = IF "main" \in bs THEN TreeOf(ScenarioA, "remote") ELSE EmptyTree
    /\ folder = remote
    /\ clock = 0
    /\ git = FALSE
    /\ prefs = Preferences("main", TRUE, FALSE)
    /\ keyPair = TRUE
    /\ calls = <<>>
    /\ raised = <<>>
    /\ ret = NoInvocation
    /\ NothingInFlight

NextRepo ==
    \/ \E le \in BOOLEAN : init(le)
    \/ \E o \in [keepKeyPair : BOOLEAN] :
          \E f \in FailurePoints(disconnectCalls(o)) : disconnect(o, f)
    \/ \E b \in BranchNames, first \in ListingOutcomes :
          \E second \in (IF retries(first) THEN ListingOutcomes ELSE {ListingOk}) :
             initializeRepository([branchName |-> b], first, second, NoFailure)
    \/ \E b \in BranchNames :
          \E f \in FailurePoints(initIfAbsent(git)
                                 \o <<Call("git", "initRepository", NoArg)>>
                                 \o afterListingCalls([branchName |-> b], branches)) :
             initializeRepository([branchName |-> b], ListingOk, ListingOk, f)
    \/ \E f \in FailurePoints(getBranchesCalls(git)) : getBranches(f)
    \/ \E b \in BranchNames \cup {""} :
          \E f \in FailurePoints(setBranchCalls(git, b)) : setBranch(b, f)
    \/ \E o \in PullOptions :
          \E f \in FailurePoints(resetWorkfolderCalls(git, prefs, o)) : resetWorkfolder(o, f)
    \/ \E o \in PullOptions :
          \E f \in FailurePoints(initIfAbsent(git)) : pullWorkfolder2(o, f)
    \/ \E f \in FailurePoints(initIfAbsent(git)
                               \o <<Call("git", "setGitUserDetails", NoArg)>>) :
          setGitUserDetails(f)

SpecRepo == InitRepo /\ [][NextRepo]_vars

(* SpecService: every handler of the service, entered in any order, with   *)
(* a few of the collaborator calls free to reject.                          *)

\* the calls that may reject in SpecService
ServiceFailures(plan) ==
    {f \in FailurePoints(plan) :
        f.nth = 1 /\ f.op \in {"none", "initService", "pull", "stage", "setPreferences",
                                "importFromWorkFolder"}}

InitService ==
    /\ db = TreeOf(ScenarioA, "local")
    /\ \E bs \in {{"dev"}, {"main"}} :
          /\ branches = bs
          /\ remote = IF "main" \in bs THEN TreeOf(ScenarioA, "remote") ELSE EmptyTree
    /\ folder = remote
    /\ clock = 0
    /\ git = FALSE
    /\ \E ro \in BOOLEAN : prefs = Preferences("main", TRUE, ro)
    /\ keyPair = TRUE
    /\ calls = <<>>
    /\ raised = <<>>
    /\ ret = NoInvocation
    /\ NothingInFlight

\* the push options of SpecService: no changeset or a conflicting item,
\* forced or not
ServicePushOptions ==
    {o \in DefaultMessageOptions :
        /\ o.force \in {"undefined", "true"}
        /\ o.fileNames # Undefined =>
              \E i \in 1..Len(o.fileNames[1]) : o.fileNames[1][i].conflict}

ServiceStatusOptions == {o \in StatusOptions : o.preferLocalVersion /\ ~o.verbose}

NextService ==
    \/ \E le \in BOOLEAN : init(le)
    \/ \E o \in [keepKeyPair : BOOLEAN] :
          \E f \in ServiceFailures(disconnectCalls(o)) : disconnect(o, f)
    \/ \E b \in BranchNames, first \in ListingOutcomes :
          /\ first.at # "getBranches"
          /\ \E f \in ServiceFailures(initIfAbsent(git)
                                       \o afterListingCalls([branchName |-> b], branches)) :
                initializeRepository([branchName |-> b], first, ListingOk, f)
    \/ \E f \in ServiceFailures(getBranchesCalls(git)) : getBranches(f)
    \/ \E b \in BranchNames \cup {""} :
          \E f \in ServiceFailures(setBranchCalls(git, b)) : setBranch(b, f)
    \/ \E o \in PullOptions :
          \E f \in ServiceFailures(resetWorkfolderCalls(git, prefs, o)) :
             resetWorkfolder(o, f)
    \/ \E o \in PullOptions :
          \E f \in ServiceFailures(initIfAbsent(git)) : pullWorkfolder2(o, f)
    \/ \E f \in ServiceFailures(initIfAbsent(git)) : setGitUserDetails(f)
    \/ \E o \in ServiceStatusOptions :
          \E f \in ServiceFailures(getStatus2Calls(git)) : getStatus2(o, f)
    \/ \E o \in ServicePushOptions :
          \E f \in ServiceFailures(changesetCalls(o) \o proceedCalls(o, FALSE)) :
             pushWorkfolder2(o, FALSE, f)

SpecService == InitService /\ [][NextService]_vars

-----------------------------------------------------------------------------
(* SpecRace: pushWorkfolder2, getStatus2 and resetWorkfolder running one    *)
(* collaborator call at a time.  Every await of a handler is a point where  *)
(* the other invocation may run; the handlers take no lock.  SpecRace       *)
(* follows the handle and the git index, with every call succeeding.       *)

\* gitService on the index: stage adds the paths it is given, commit
\* records the index and leaves nothing staged, resetBranch (with or without
\* hard) drops what is staged
gitIndex(ix, call) ==
    IF call.svc # "git" THEN ix
    ELSE IF call.op = "stage" THEN ix \cup call.arg.add \cup call.arg.del
    ELSE IF call.op \in {"commit", "resetBranch"} THEN {}
    ELSE ix

\* the calls of an invocation in flight, from the state it was entered in
planOf(inv) ==
    IF inv.op = "pushWorkfolder2"
    THEN initIfAbsent(inv.entered) \o proceedCalls(inv.options, inv.resetResultEmpty)
    ELSE IF inv.op = "getStatus2"
    THEN getStatus2Calls(inv.entered)
    ELSE resetWorkfolderCalls(inv.entered, prefs, inv.options)

\* the calls that touch the index
IndexOps == {"resetBranch", "stage", "commit"}

Others(i) == Invocations \ {i}

\* a handler is entered: it tests the handle, and runs up to its first await
Enter(i, op, options, resetResultEmpty) ==
    /\ flight[i] = Idle
    /\ flight' = [j \in Invocations |->
                    IF j = i
                    THEN [op |-> op, options |-> options,
                          resetResultEmpty |-> resetResultEmpty,
                          entered |-> git, pc |-> 0, staged |-> {},
                          alone |-> \A k \in Others(i) : flight[k] = Idle,
                          between |-> {}]
                    ELSE IF flight[j] = Idle THEN Idle
                    ELSE [flight[j] EXCEPT !.alone = FALSE]]
    /\ UNCHANGED <<db, folder, remote, clock, git, prefs, keyPair, branches,
                   calls, raised, ret, index, committed>>

\* pushWorkfolder2 with supplied files that pass the barrier (lines 282-305
\* make no call then)
EnterPush(i, options, resetResultEmpty) ==
    /\ ~prefs.branchReadOnly
    /\ ~computesStatus(options)
    /\ ~(barrierApplies(options) /\ Len(possibleConflicts(suppliedFiles(options))) > 0)
    /\ Enter(i, "pushWorkfolder2", options, resetResultEmpty)

EnterStatus(i, options) == Enter(i, "getStatus2", options, FALSE)

EnterReset(i, options) == Enter(i, "resetWorkfolder", options, FALSE)

\* the next call of invocation i runs to its completion
Step(i) ==
    /\ flight[i] # Idle
    /\ LET inv == flight[i]
           plan == planOf(inv)
           call == plan[inv.pc + 1]
       IN /\ index' = gitIndex(index, call)
          /\ git' = (git \/ call.op = "initService")
          /\ committed' = IF call.svc = "git" /\ call.op = "commit"
                          THEN [by |-> i, covers |-> index, staged |-> inv.staged,
                                alone |-> inv.alone, between |-> inv.between]
                          ELSE committed
          /\ flight' = [j \in Invocations |->
                          IF j = i
                          THEN IF inv.pc + 1 = Len(plan)
                               THEN Idle
                               ELSE [inv EXCEPT
                                       !.pc = @ + 1,
                                       !.staged = IF call.op = "stage"
                                                  THEN call.arg.add \cup call.arg.del
                                                  ELSE @]
                          ELSE IF /\ flight[j] # Idle
                                  /\ flight[j].staged # {}
                                  /\ call.svc = "git" /\ call.op \in IndexOps
                          THEN [flight[j] EXCEPT !.between = @ \cup {call.op}]
                          ELSE flight[j]]
    /\ UNCHANGED <<db, folder, remote, clock, prefs, keyPair, branches, calls, raised, ret>>

\* the files a push of SpecRace is handed
RaceItems == {x \in PushItems : ~x.conflict}

RacePushOptions ==
    [fileNames : {Some(<<x>>) : x \in RaceItems}, message : {NoValue}, force : {"undefined"}]

\* what an earlier push whose commit was rejected may have left staged
StaleIndex == {{}, {getVariablesPath}}

InitRace ==
    /\ db = TreeOf(ScenarioA, "local")
    /\ remote = TreeOf(ScenarioA, "remote")
    /\ folder = remote
    /\ clock = 0
    /\ git = FALSE
    /\ prefs = Preferences("main", TRUE, FALSE)
    /\ keyPair = TRUE
    /\ branches = {"main"}
    /\ calls = <<>>
    /\ raised = <<>>
    /\ ret = NoInvocation
    /\ index \in StaleIndex
    /\ flight = [i \in Invocations |-> Idle]
    /\ committed = NoCommit

NextRace ==
    \/ \E i \in Invocations, o \in RacePushOptions, e \in BOOLEAN : EnterPush(i, o, e)
    \/ \E i \in Invocations : EnterStatus(i, pushStatusOptions)
    \/ \E i \in Invocations, o \in PullOptions : EnterReset(i, o)
    \/ \E i \in Invocations : Step(i)

SpecRace == InitRace /\ [][NextRace]_vars

-----------------------------------------------------------------------------
(* fileNameToSourceControlledFile (lines 478-631): the changeset item of a  *)
(* file of the working folder, from a `git status` result.                  *)

SOURCE_CONTROL_WORKFLOW_EXPORT_FOLDER == "workflows"
SOURCE_CONTROL_CREDENTIAL_EXPORT_FOLDER == "credentials"
SOURCE_CONTROL_VARIABLES_EXPORT_FILE == getVariablesPath
SOURCE_CONTROL_TAGS_EXPORT_FILE == getTagsPath

\* String.prototype.startsWith
startsWith(s, prefix) == Len(s) >= Len(prefix) /\ SubSeq(s, 1, Len(prefix)) = prefix

\* where a string first holds a needle, 0 when nowhere
indexOf(s, needle) ==
    LET at == {i \in 1..(Len(s) - Len(needle) + 1) :
                  SubSeq(s, i, i + Len(needle) - 1) = needle}
    IN IF at = {} THEN 0 ELSE CHOOSE i \in at : \A j \in at : i <= j

\* String.prototype.replace(needle, ''): the first occurrence is removed
remove(s, needle) ==
    IF indexOf(s, needle) = 0 THEN s
    ELSE SubSeq(s, 1, indexOf(s, needle) - 1)
         \o SubSeq(s, indexOf(s, needle) + Len(needle), Len(s))

\* replace(/[\/,\\]/, ''): the first slash, comma or backslash is removed
removeSeparator(s) ==
    LET at == {i \in 1..Len(s) : SubSeq(s, i, i) \in {"/", ",", "\\"}}
    IN IF at = {} THEN s
       ELSE LET i == CHOOSE j \in at : \A k \in at : j <= k
            IN SubSeq(s, 1, i - 1) \o SubSeq(s, i + 1, Len(s))

\* sourceControlExportService.getWorkflowFromFile and getCredentialFromFile:
\* the parsed file, undefined when the folder holds no such file
getWorkflowFromFile(f, fileName) ==
    Find(f.wf, LAMBDA file : getWorkflowExportPath(file.id) = fileName)

getCredentialFromFile(f, fileName) ==
    Find(f.cred, LAMBDA file : getCredentialExportPath(file.id) = fileName)

listed(list, fileName) == Has(list, LAMBDA e : e = fileName)

\* lines 503-523: the status, the conflict flag and the location, from the
\* git status result; `logged` when the file is in no list and local
gitStatus(fileName, location, statusResult) ==
    LET is(status, conflict) ==
            [status |-> status, conflict |-> conflict, location |-> location,
             logged |-> FALSE]
    IN IF listed(statusResult.not_added, fileName) THEN is("new", FALSE)
       ELSE IF listed(statusResult.conflicted, fileName) THEN is("conflicted", TRUE)
       ELSE IF listed(statusResult.created, fileName) THEN is("created", FALSE)
       ELSE IF listed(statusResult.deleted, fileName) THEN is("deleted", FALSE)
       ELSE IF listed(statusResult.modified, fileName) THEN is("modified", FALSE)
       ELSE IF /\ statusResult.ignored # Undefined
               /\ listed(statusResult.ignored[1], fileName) THEN is("ignored", FALSE)
       ELSE IF Has(statusResult.renamed, LAMBDA e : e.to = fileName)
       THEN is("renamed", FALSE)
       ELSE IF listed(statusResult.staged, fileName) THEN is("staged", FALSE)
       ELSE IF location = "remote"
       THEN [status |-> "created", conflict |-> FALSE, location |-> "local",
             logged |-> FALSE]
       ELSE [status |-> "unknown", conflict |-> FALSE, location |-> location,
             logged |-> TRUE]

\* what the function has worked out so far; `returned` once it has returned
\* undefined
Resolving(id, name, status, type, updatedAt, returned) ==
    [id |-> id, name |-> name, status |-> status, type |-> type,
     updatedAt |-> updatedAt, returned |-> returned]

\* name and updatedAt of the row of the database with this id, when there is
\* one
withExisting(cur, rows) ==
    LET existing == Find(rows, LAMBDA row : row.id = cur.id)
    IN IF existing = Undefined THEN cur
       ELSE [cur EXCEPT !.name = existing[1].name,
                        !.updatedAt = toISOString(existing[1].updatedAt)]

\* lines 525-562 for workflows, 563-599 for credentials
resolveEntity(cur, fileName, location, exportFolder, type, rows, fromFile) ==
    IF cur.returned \/ ~startsWith(fileName, exportFolder) THEN cur
    ELSE IF cur.status = "deleted"
    THEN LET id == remove(removeSeparator(remove(fileName, exportFolder)), ".json")
             named == [cur EXCEPT !.type = type, !.id = id]
         IN IF location = "remote"
            THEN withExisting(named, rows)
            ELSE [named EXCEPT !.name = "(deleted)"]
    ELSE IF fromFile = Undefined
    THEN IF location = "local"
         THEN [cur EXCEPT !.type = type, !.returned = TRUE]
         ELSE withExisting([cur EXCEPT !.type = type,
                                       !.id = remove(remove(fileName, exportFolder \o "/"),
                                                     ".json"),
                                       !.status = "created"],
                           rows)
    ELSE withExisting([cur EXCEPT !.type = type, !.id = fromFile[1].id,
                                  !.name = fromFile[1].name],
                      rows)

\* lines 601-617: the variables file and the tags file
resolveFile(cur, fileName, d) ==
    LET variables == IF startsWith(fileName, SOURCE_CONTROL_VARIABLES_EXPORT_FILE)
                     THEN [cur EXCEPT !.id = "variables", !.name = "variables",
                                      !.type = "variables"]
                     ELSE cur
    IN IF cur.returned THEN cur
       ELSE IF startsWith(fileName, SOURCE_CONTROL_TAGS_EXPORT_FILE)
       THEN [variables EXCEPT !.id = "tags", !.name = "tags", !.type = "tags",
                              !.updatedAt = lastUpdatedTag(d)]
       ELSE variables

\* what fileNameToSourceControlledFile returns
resolvedFile(fileName, location, statusResult, d, f) ==
    LET git0 == gitStatus(fileName, location, statusResult)
        start == Resolving(NoValue, "", git0.status, "file", "", FALSE)
        wf == resolveEntity(start, fileName, git0.location,
                            SOURCE_CONTROL_WORKFLOW_EXPORT_FOLDER, "workflow",
                            d.wf, getWorkflowFromFile(f, fileName))
        cred == resolveEntity(wf, fileName, git0.location,
                              SOURCE_CONTROL_CREDENTIAL_EXPORT_FOLDER, "credential",
                              d.cred, getCredentialFromFile(f, fileName))
        end == resolveFile(cred, fileName, d)
    IN IF end.returned \/ end.id = NoValue \/ end.id = ""
       THEN Undefined
       ELSE Some(SourceControlledFile(end.id, end.name, end.type, end.status,
                                      git0.location, git0.conflict, fileName,
                                      end.updatedAt))

fileNameToSourceControlledFile(fileName, location, statusResult) ==
    /\ ret' = Invocation("fileNameToSourceControlledFile",
                         [fileName |-> fileName, location |-> location,
                          statusResult |-> statusResult],
                         clock, "return",
                         resolvedFile(fileName, location, statusResult, db, folder))
    /\ calls' = <<Call("db", "Workflow.find", NoArg),
                  Call("db", "Credentials.find", NoArg)>>
                \o (IF gitStatus(fileName, location, statusResult).logged
                    THEN <<Call("log", "debug", fileName)>> ELSE <<>>)
    /\ raised' = <<>>
    /\ UNCHANGED <<index, flight, committed, db, folder, remote, clock, git, prefs,
                   keyPair, branches>>

\* SpecFile: one call of the function, over the files of the export tree and
\* one other, each list of the status result with or without the file

FileNames ==
    {getWorkflowExportPath("W1"), getCredentialExportPath("C1"),
     SOURCE_CONTROL_VARIABLES_EXPORT_FILE, SOURCE_CONTROL_TAGS_EXPORT_FILE, "README.md"}

OtherFile == getWorkflowExportPath("W2")

Lists(fileName) == {<<OtherFile>>, <<OtherFile, fileName>>}

StatusResults(fileName) ==
    [not_added : Lists(fileName),
     conflicted : Lists(fileName),
     created : Lists(fileName),
     deleted : Lists(fileName),
     modified : Lists(fileName),
     ignored : {Undefined} \cup {Some(l) : l \in Lists(fileName)},
     renamed : {<<>>, <<[from |-> OtherFile, to |-> fileName]>>},
     staged : Lists(fileName)]

credentialRow(id) ==
    [id |-> id, name |-> "A", type |-> "http", nodesAccess |-> <<>>, updatedAt |-> 0]

InitFile ==
    /\ db \in {EmptyTree,
               [EmptyTree EXCEPT !.wf = <<wfRow("W1", "v1")>>,
                                 !.cred = <<credentialRow("C1")>>,
                                 !.tags = <<tagRow("T1")>>]}
    /\ folder \in {EmptyTree,
                   [EmptyTree EXCEPT !.wf = <<wfFile("W1", "v1", "B")>>,
                                     !.cred = <<credential("C1", "B", "http", <<>>)>>]}
    /\ remote = EmptyTree
    /\ clock = 0
    /\ git = FALSE
    /\ prefs = Preferences("main", TRUE, FALSE)
    /\ keyPair = TRUE
    /\ branches = {"main"}
    /\ calls = <<>>
    /\ raised = <<>>
    /\ \E fileName \in FileNames, location \in {"local", "remote"} :
          \E statusResult \in StatusResults(fileName) :
             ret = Invocation("fileNameToSourceControlledFile",
                              [fileName |-> fileName, location |-> location,
                               statusResult |-> statusResult],
                              0, "called", NoArg)
    /\ index = {}
    /\ flight = [i \in Invocations |-> Idle]
    /\ committed = NoCommit

\* the call that was made returns
NextFile ==
    /\ ret.outcome = "called"
    /\ fileNameToSourceControlledFile(ret.options.fileName, ret.options.location,
                                      ret.options.statusResult)

SpecFile == InitFile /\ [][NextFile]_vars

-----------------------------------------------------------------------------
(* Reading the last invocation. *)

StatusReturned == ret.op = "getStatus2" /\ ret.outcome = "return"

VerboseReturned == StatusReturned /\ ret.options.verbose

\* the changeset of a getStatus2 result
FilesOf(r) == IF r.options.verbose THEN r.value.sourceControlledFiles ELSE r.value

IdsOf(s) == {r.id : r \in Range(s)}

Disjoint(a, b) == a \cap b = {}

\* the items of a changeset for one entity
ItemsFor(files, type, id) == SelectSeq(files, LAMBDA item : item.type = type /\ item.id = id)

ItemsOfType(files, type) == SelectSeq(files, LAMBDA item : item.type = type)

-----------------------------------------------------------------------------
(* C4: no double-counting. *)

\* C4 as stated: for every kind (workflow, credential, variable, tag), no
\* entity id is in more than one of missing-in-local, missing-in-remote and
\* modified-in-either of a getStatus2 run.
C4_NoDoubleCounting ==
    VerboseReturned =>
        LET v == ret.value
        IN /\ Disjoint(IdsOf(v.wfMissingInLocal), IdsOf(v.wfMissingInRemote))
           /\ Disjoint(IdsOf(v.wfMissingInLocal), IdsOf(Defined(v.wfModifiedInEither)))
           /\ Disjoint(IdsOf(v.wfMissingInRemote), IdsOf(Defined(v.wfModifiedInEither)))
           /\ Disjoint(IdsOf(v.credMissingInLocal), IdsOf(v.credMissingInRemote))
           /\ Disjoint(IdsOf(v.credMissingInLocal), IdsOf(Defined(v.credModifiedInEither)))
           /\ Disjoint(IdsOf(v.credMissingInRemote), IdsOf(Defined(v.credModifiedInEither)))
           /\ Disjoint(IdsOf(v.varMissingInLocal), IdsOf(v.varMissingInRemote))
           /\ Disjoint(IdsOf(v.varMissingInLocal), IdsOf(Defined(v.varModifiedInEither)))
           /\ Disjoint(IdsOf(v.varMissingInRemote), IdsOf(Defined(v.varModifiedInEither)))
           /\ Disjoint(IdsOf(v.tagsMissingInLocal), IdsOf(v.tagsMissingInRemote))
           /\ Disjoint(IdsOf(v.tagsMissingInLocal), IdsOf(v.tagsModifiedInEither))
           /\ Disjoint(IdsOf(v.tagsMissingInRemote), IdsOf(v.tagsModifiedInEither))

\* C4 as amended: for the kinds workflow, credential and tag, no entity id is
\* in more than one of the three sets; for variables no id is in both
\* missing-in-local and missing-in-remote (a variable whose key the other side
\* holds under another id is both missing and modified).
C4_NoDoubleCountingByIdMatch ==
    VerboseReturned =>
        LET v == ret.value
        IN /\ Disjoint(IdsOf(v.wfMissingInLocal), IdsOf(v.wfMissingInRemote))
           /\ Disjoint(IdsOf(v.wfMissingInLocal), IdsOf(Defined(v.wfModifiedInEither)))
           /\ Disjoint(IdsOf(v.wfMissingInRemote), IdsOf(Defined(v.wfModifiedInEither)))
           /\ Disjoint(IdsOf(v.credMissingInLocal), IdsOf(v.credMissingInRemote))
           /\ Disjoint(IdsOf(v.credMissingInLocal), IdsOf(Defined(v.credModifiedInEither)))
           /\ Disjoint(IdsOf(v.credMissingInRemote), IdsOf(Defined(v.credModifiedInEither)))
           /\ Disjoint(IdsOf(v.varMissingInLocal), IdsOf(v.varMissingInRemote))
           /\ Disjoint(IdsOf(v.tagsMissingInLocal), IdsOf(v.tagsMissingInRemote))
           /\ Disjoint(IdsOf(v.tagsMissingInLocal), IdsOf(v.tagsModifiedInEither))
           /\ Disjoint(IdsOf(v.tagsMissingInRemote), IdsOf(v.tagsModifiedInEither))

\* a run over snapshots that each hold a workflow the other lacks
C4_Witness ==
    /\ VerboseReturned
    /\ ret.value.wfMissingInLocal # <<>>
    /\ ret.value.wfMissingInRemote # <<>>

-----------------------------------------------------------------------------
(* C5: direction symmetry. *)

OtherDirection(d) == IF d = "push" THEN "pull" ELSE "push"

\* the push/pull mapping table: p is an item of the push changeset, q the
\* item of the pull changeset for the same entity
MappingTable(p, q) ==
    CASE p.status = "deleted" /\ p.location = "local" ->
             q.status = "created" /\ q.location = "remote"
      [] p.status = "created" /\ p.location = "local" ->
             q.status = "deleted" /\ q.location = "remote"
      [] p.status = "modified" -> q.status = "modified"
      [] OTHER -> FALSE

TypeIds(files) == {<<item.type, item.id>> : item \in Range(files)}

Symmetric(pushFiles, pullFiles) ==
    /\ TypeIds(pushFiles) = TypeIds(pullFiles)
    /\ Len(pushFiles) = Len(pullFiles)
    /\ \A p \in Range(pushFiles) : \E q \in Range(pullFiles) :
          /\ q.type = p.type /\ q.id = p.id
          /\ q.conflict = p.conflict
          /\ MappingTable(p, q)
    /\ \A q \in Range(pullFiles) : \E p \in Range(pushFiles) :
          /\ q.type = p.type /\ q.id = p.id
          /\ q.conflict = p.conflict
          /\ MappingTable(p, q)

\* C5: the changeset a getStatus2 run returned and the changeset of a run in
\* the other direction, over the same snapshots and the same preferLocal,
\* hold the same (type, id) pairs, with status and location swapped by the
\* mapping table and the same conflict flags.
C5_DirectionSymmetry ==
    StatusReturned =>
        LET mine == FilesOf(ret)
            other == reconcile(db, folder,
                         [ret.options EXCEPT !.direction = OtherDirection(@)],
                         ret.at).sourceControlledFiles
        IN IF ret.options.direction = "push"
           THEN Symmetric(mine, other)
           ELSE Symmetric(other, mine)

\* a pull run that reports an entity only the remote has and one only the
\* database has
C5_Witness ==
    /\ StatusReturned
    /\ ret.options.direction = "pull"
    /\ \E a, b \in Range(FilesOf(ret)) :
          /\ a.status = "created" /\ a.location = "remote"
          /\ b.status = "deleted" /\ b.location = "remote"

-----------------------------------------------------------------------------
(* C6: one-sided workflows and credentials. *)

\* the changeset holds exactly one item for the entity, and it is this one
ExactlyOne(files, type, id, status, location, conflict) ==
    /\ Len(ItemsFor(files, type, id)) = 1
    /\ ItemsFor(files, type, id)[1].status = status
    /\ ItemsFor(files, type, id)[1].location = location
    /\ ItemsFor(files, type, id)[1].conflict = conflict

OnlyIn(these, those) == IdsOf(these) \ IdsOf(those)

\* C6: a workflow or credential only the remote snapshot holds yields exactly
\* one item, conflict=false, deleted/local under push and created/remote
\* under pull; one only the local snapshot holds yields exactly one item,
\* conflict=false, created/local under push and deleted/remote under pull.
C6_OneSidedEntities ==
    StatusReturned =>
        LET files == FilesOf(ret)
            push == ret.options.direction = "push"
        IN /\ \A id \in OnlyIn(folder.wf, db.wf) :
                  ExactlyOne(files, "workflow", id,
                      IF push THEN "deleted" ELSE "created",
                      IF push THEN "local" ELSE "remote", FALSE)
           /\ \A id \in OnlyIn(folder.cred, db.cred) :
                  ExactlyOne(files, "credential", id,
                      IF push THEN "deleted" ELSE "created",
                      IF push THEN "local" ELSE "remote", FALSE)
           /\ \A id \in OnlyIn(db.wf, folder.wf) :
                  ExactlyOne(files, "workflow", id,
                      IF push THEN "created" ELSE "deleted",
                      IF push THEN "local" ELSE "remote", FALSE)
           /\ \A id \in OnlyIn(db.cred, folder.cred) :
                  ExactlyOne(files, "credential", id,
                      IF push THEN "created" ELSE "deleted",
                      IF push THEN "local" ELSE "remote", FALSE)

\* scenario B: the remote has credential C1, the database has none, and a
\* push run has reported it
C6_Witness ==
    /\ StatusReturned
    /\ ret.options.direction = "push"
    /\ db.cred = <<>>
    /\ "C1" \in IdsOf(folder.cred)
    /\ Len(ItemsFor(FilesOf(ret), "credential", "C1")) = 1

-----------------------------------------------------------------------------
(* C7: modified workflows and credentials. *)

\* the record with this id in a snapshot that holds it
WithId(s, id) == CHOOSE r \in Range(s) : r.id = id

\* the changeset holds no item for the entity, or exactly one that is
\* modified and conflicting
ModifiedIff(files, type, id, differs) ==
    IF differs
    THEN /\ Len(ItemsFor(files, type, id)) = 1
         /\ ItemsFor(files, type, id)[1].status = "modified"
         /\ ItemsFor(files, type, id)[1].conflict = TRUE
    ELSE Len(ItemsFor(files, type, id)) = 0

-----------------------------------------------------------------------------
(* C8: variables are aggregated. *)

\* C8: whenever the local and remote variable sets differ, in ids, keys or
\* values, the changeset holds exactly one item of type variables, with id
\* 'variables' and conflict=true; it never holds more than one.
C8_VariablesAggregated ==
    StatusReturned =>
        LET items == ItemsOfType(FilesOf(ret), "variables")
        IN /\ Len(items) <= 1
           /\ Range(db.var) # Range(folder.var) =>
                  /\ Len(items) = 1
                  /\ items[1].id = "variables"
                  /\ items[1].conflict = TRUE

\* scenario C: the same id and key with another value on the remote
C8_Witness ==
    /\ StatusReturned
    /\ \E l \in Range(db.var) : \E r \in Range(folder.var) :
          l.id = r.id /\ l.key = r.key /\ l.value # r.value
    /\ Len(db.var) = 1 /\ Len(folder.var) = 1
    /\ Len(ItemsOfType(FilesOf(ret), "variables")) = 1

-----------------------------------------------------------------------------
(* C1, C2, C3: the barriers of pushWorkfolder2. *)

PushCalled == ret.op = "pushWorkfolder2"

PushReturned == PushCalled /\ ret.outcome = "return"

\* the items the caller supplied in options.fileNames, none when absent
Supplied == IF ret.options.fileNames = Undefined THEN <<>> ELSE ret.options.fileNames[1]

\* the changeset the last push evaluated: the supplied items, or the status
\* it computed when none was supplied
Evaluated ==
    IF Supplied # <<>>
    THEN Supplied
    ELSE reconcile(db, folder,
             [direction |-> "push", preferLocalVersion |-> TRUE, verbose |-> FALSE],
             ret.at).sourceControlledFiles

Invoked(svc, op) == \E i \in 1..Len(calls) : calls[i].svc = svc /\ calls[i].op = op

\* C1: a push with force not true whose changeset holds an item with
\* conflict=true returns status 409, pushResult undefined and that changeset
\* as diffResult, and invokes none of stage, commit and push.
C1_ConflictBarrier ==
    (/\ PushCalled
     /\ ~prefs.branchReadOnly
     /\ ret.options.force # "true"
     /\ \E item \in Range(Evaluated) : item.conflict)
    => /\ ret.outcome = "return"
       /\ ret.value.status = 409
       /\ ret.value.pushResult = Undefined
       /\ ret.value.diffResult = Evaluated
       /\ ~Invoked("git", "stage")
       /\ ~Invoked("git", "commit")
       /\ ~Invoked("git", "push")

\* a push with force unset, handed a conflicting item, that returned 409
C1_Witness ==
    /\ PushReturned
    /\ ret.options.force = "undefined"
    /\ \E item \in Range(Supplied) : item.conflict
    /\ ret.value.status = 409

\* the calls of the last invocation that change the working folder, the
\* index or HEAD
Touching ==
    SelectSeq(calls, LAMBDA c :
        c.op \in {"cleanWorkFolder", "pull", "resetBranch", "stage", "commit", "push"})

\* C2 as stated: a push that ends with status 409 has invoked none of
\* cleanWorkFolder, pull, resetBranch, stage, commit and push.
C2_Untouched409 ==
    (PushReturned /\ ret.value.status = 409) => Touching = <<>>

\* C2 as amended: a push that ends with status 409 has invoked no index
\* reset, stage, commit or push; with a non-empty fileNames it has invoked no
\* operation that changes the working folder, the index or HEAD; when it
\* computed the changeset itself it has invoked exactly the refresh of the
\* status computation: cleanWorkFolder, pull (ffOnly=false) and resetBranch
\* (hard, HEAD), once each, in this order.
C2_Untouched409BesidesRefresh ==
    (PushReturned /\ ret.value.status = 409) =>
        Touching = IF Supplied # <<>>
                   THEN <<>>
                   ELSE <<[svc |-> "export", op |-> "cleanWorkFolder", arg |-> <<>>],
                          [svc |-> "git", op |-> "pull", arg |-> [ffOnly |-> FALSE]],
                          [svc |-> "git", op |-> "resetBranch",
                           arg |-> [hard |-> TRUE, target |-> "HEAD"]]>>

\* a push without fileNames that computed a conflicting changeset and
\* returned 409
C2_Witness ==
    /\ PushReturned
    /\ ret.options.fileNames = Undefined
    /\ ret.value.status = 409
    /\ ret.value.diffResult # <<>>

\* the calls of the last invocation on the transport
GitCalls == SelectSeq(calls, LAMBDA c : c.svc = "git")

-----------------------------------------------------------------------------
(* C9, C10: two runs of getStatus2. *)

\* C9: two runs of getStatus2 over identical local snapshots, remote
\* snapshots, direction and preferLocal return changesets that are equal as
\* sets of items in every field, whenever the runs happen.
C9_PureFunction ==
    [][(/\ StatusReturned
        /\ ret'.op = "getStatus2"
        /\ ret'.options.direction = ret.options.direction
        /\ ret'.options.preferLocalVersion = ret.options.preferLocalVersion
        /\ db' = db
        /\ folder' = folder)
       => Range(FilesOf(ret')) = Range(FilesOf(ret))]_vars

\* C10: a getStatus2 call that follows another with the same options, with
\* no change to the database or the remote branch in between, returns the
\* same changeset as the first.
C10_IdempotentStatus ==
    [][(/\ StatusReturned
        /\ ret'.op = "getStatus2"
        /\ ret'.options = ret.options
        /\ db' = db
        /\ remote' = remote)
       => FilesOf(ret') = FilesOf(ret)]_vars

-----------------------------------------------------------------------------
(* C11: the refresh of getStatus2 and its snapshot reads. *)

StatusCalled == ret.op = "getStatus2"

\* the call of the last invocation that rejected, when it threw
Rejected == calls[Len(calls)]

ReadOps == {c.op : c \in Range(readCalls)}

RefreshOps == {c.op : c \in Range(refreshCalls)}

\* the calls of the last invocation from the first refresh step on
FromRefresh ==
    SelectSeq(calls, LAMBDA c : c.op \in RefreshOps \cup ReadOps)

IsPrefix(a, b) == Len(a) <= Len(b) /\ a = SubSeq(b, 1, Len(a))

\* C11: in every getStatus2 call the refresh runs as cleanWorkFolder, pull
\* with ffOnly=false, resetBranch hard to HEAD, in this order, and the three
\* have returned before any snapshot is read; a returned changeset follows
\* all the reads and is the reconciliation of the database with the
\* refreshed folder; when a refresh step rejects, no snapshot is read and the
\* call throws.
C11_RefreshBeforeRead ==
    StatusCalled =>
        /\ IsPrefix(FromRefresh, refreshCalls \o readCalls)
        /\ refreshCalls =
               <<[svc |-> "export", op |-> "cleanWorkFolder", arg |-> <<>>],
                 [svc |-> "git", op |-> "pull", arg |-> [ffOnly |-> FALSE]],
                 [svc |-> "git", op |-> "resetBranch",
                  arg |-> [hard |-> TRUE, target |-> "HEAD"]]>>
        /\ (ret.outcome = "return") =>
               /\ FromRefresh = refreshCalls \o readCalls
               /\ FilesOf(ret) =
                      reconcile(db, remote, ret.options, ret.at).sourceControlledFiles
        /\ (ret.outcome = "throw" /\ Rejected.op \in RefreshOps) =>
               \A i \in 1..Len(calls) : calls[i].op \notin ReadOps
        /\ (\E i \in 1..Len(calls) : calls[i].op \in ReadOps) =>
               Len(FromRefresh) > Len(refreshCalls)

\* a getStatus2 call over differing snapshots whose pull rejected
C11_Witness ==
    /\ StatusCalled
    /\ ret.outcome = "throw"
    /\ Rejected.op = "pull"
    /\ remote # exported(db)

-----------------------------------------------------------------------------
(* C12: when pushWorkfolder2 computes the changeset. *)

\* the calls of the last invocation that belong to a status computation
StatusPart ==
    SelectSeq(calls, LAMBDA c :
        \/ c.op \in ReadOps
        \/ c.op \in {"cleanWorkFolder", "pull"}
        \/ c.op = "resetBranch" /\ c.arg # NoArg)

\* an item without its pushed mark
Unmarked(item) == [field \in DOMAIN item \ {"pushed"} |-> item[field]]

\* the changeset a status computation in push direction, preferring the
\* local version, not verbose, returns for the present snapshots
PushStatus ==
    statusValue(db, folder,
                [direction |-> "push", preferLocalVersion |-> TRUE, verbose |-> FALSE],
                ret.at)

PushPassedReadOnly == PushCalled /\ ~prefs.branchReadOnly /\ ret.outcome = "return"

\* C12 as stated: push runs one status computation (push, preferLocal=true,
\* verbose=false) exactly when options.fileNames is absent; with fileNames
\* supplied it runs none and the supplied items are the changeset.
C12_ComputesExactlyWhenAbsent ==
    PushPassedReadOnly =>
        IF ret.options.fileNames = Undefined
        THEN /\ StatusPart = refreshCalls \o readCalls
             /\ ret.value.diffResult = PushStatus
        ELSE /\ StatusPart = <<>>
             /\ Map(ret.value.diffResult, Unmarked) = Supplied

\* C12 as amended: push runs one status computation (push,
\* preferLocal=true, verbose=false) exactly when options.fileNames is absent
\* or empty; with a non-empty fileNames it runs none and the supplied items
\* are the changeset.
C12_ComputesWhenNoneSupplied ==
    PushPassedReadOnly =>
        IF Supplied = <<>>
        THEN /\ StatusPart = refreshCalls \o readCalls
             /\ ret.value.diffResult = PushStatus
        ELSE /\ StatusPart = <<>>
             /\ Map(ret.value.diffResult, Unmarked) = Supplied

\* a push handed an empty fileNames that computed a changeset with an item
C12_Witness ==
    /\ PushPassedReadOnly
    /\ ret.options.fileNames = Some(<<>>)
    /\ StatusPart # <<>>
    /\ ret.value.diffResult # <<>>

-----------------------------------------------------------------------------
(* C13: what a proceeding push stages. *)

Proceeded == PushReturned /\ ret.value.status = 200

\* the call of the last invocation on gitService.stage
StageCall == SelectSeq(calls, LAMBDA c : c.op = "stage")[1]

PathsOf(items, deleted) ==
    {item.file : item \in {x \in Range(items) : (x.status = "deleted") = deleted}}

\* C13: a push that passes the barriers hands to gitService.stage, as files
\* to add, the paths of the items of the returned diffResult whose status is
\* not deleted and, as files to delete, the paths of those whose status is
\* deleted, whether the changeset was supplied or computed by push.
C13_StagedContent ==
    Proceeded =>
        /\ StageCall.arg.add = PathsOf(ret.value.diffResult, FALSE)
        /\ StageCall.arg.del = PathsOf(ret.value.diffResult, TRUE)

-----------------------------------------------------------------------------
(* C14: the pushed mark. *)

Marked(item) == "pushed" \in DOMAIN item /\ item.pushed

\* C14: in the diffResult of a push that returns 200 an item has pushed=true
\* if and only if options.fileNames is given and holds an item with the same
\* file; with fileNames absent no item is marked, and no item of a 409
\* result is marked.
C14_PushedMarking ==
    PushReturned =>
        \A item \in Range(ret.value.diffResult) :
            Marked(item) <=>
                /\ ret.value.status = 200
                /\ ret.options.fileNames # Undefined
                /\ \E file \in Range(Supplied) : file.file = item.file

\* a push that returned 200 with a marked item
C14_Witness ==
    /\ Proceeded
    /\ \E item \in Range(ret.value.diffResult) : Marked(item)

-----------------------------------------------------------------------------
(* C15: initializeRepository on a remote without branches. *)

\* the calls of a call sequence from the first call of an operation on
From(cs, op) ==
    IF \E i \in 1..Len(cs) : cs[i].op = op
    THEN SubSeq(cs, CHOOSE i \in 1..Len(cs) :
                        cs[i].op = op /\ \A j \in 1..(i - 1) : cs[j].op # op,
                Len(cs))
    ELSE <<>>

OpsOf(cs) == [i \in 1..Len(cs) |-> cs[i].op]

LoggedError(cs) == \E i \in 1..Len(cs) : cs[i].svc = "log" /\ cs[i].op = "error"

\* C15: when initializeRepository finds a remote without branches and no
\* step rejects, it writes and stages README.md, commits once, pushes with
\* force=true to the branch name of the given preferences, lists the
\* branches and switches to that branch, each once and in this order; when
\* a step rejects the calls made are the first ones of this sequence; and
\* on a remote that has the branch none of stage, commit and push is
\* invoked.
C15_BootstrapOnEmptyRemote ==
    [][(ret'.op = "initializeRepository") =>
          /\ (branches = {} /\ ret'.outcome = "return" /\ ~LoggedError(calls')) =>
                 From(calls', "writeFileSync") =
                    <<[svc |-> "fs", op |-> "writeFileSync", arg |-> "README.md"],
                      [svc |-> "git", op |-> "stage",
                       arg |-> [add |-> {"README.md"}, del |-> {}]],
                      [svc |-> "git", op |-> "commit",
                       arg |-> [message |-> "Initial commit"]],
                      [svc |-> "git", op |-> "push",
                       arg |-> [branch |-> ret'.options.branchName, force |-> TRUE]],
                      [svc |-> "git", op |-> "fetch", arg |-> <<>>],
                      [svc |-> "git", op |-> "getBranches", arg |-> <<>>],
                      [svc |-> "git", op |-> "setBranch",
                       arg |-> ret'.options.branchName]>>
          /\ IsPrefix(OpsOf(SelectSeq(From(calls', "writeFileSync"),
                                      LAMBDA c : c.svc # "log")),
                      <<"writeFileSync", "stage", "commit", "push", "fetch",
                        "getBranches", "setBranch">>)
          /\ (ret'.options.branchName \in branches) =>
                 \A i \in 1..Len(calls') : calls'[i].op \notin {"stage", "commit", "push"}
      ]_vars

\* an initializeRepository call that created the branch on an empty remote
\* and switched to it
C15_Witness ==
    /\ ret.op = "initializeRepository"
    /\ ret.outcome = "return"
    /\ Invoked("fs", "writeFileSync")
    /\ Invoked("git", "push")
    /\ calls[Len(calls)].op = "setBranch"
    /\ branches = {ret.options.branchName}

-----------------------------------------------------------------------------
(* C16: initializeRepository on a remote with branches, none of them the    *)
(* given one.                                                               *)

\* C16: when the remote has a branch but not the one of the given
\* preferences, initializeRepository invokes none of stage, commit, push and
\* setBranch on the transport, and leaves the preferences with an empty
\* branchName and not connected.
C16_MissingTargetBranch ==
    [][(/\ ret'.op = "initializeRepository"
        /\ ret'.outcome = "return"
        /\ branches # {}
        /\ ret'.options.branchName \notin branches)
       => /\ \A i \in 1..Len(calls') :
                calls'[i].svc = "git" =>
                    calls'[i].op \notin {"stage", "commit", "push", "setBranch"}
          /\ prefs'.branchName = ""
          /\ ~prefs'.connected
      ]_vars

-----------------------------------------------------------------------------
(* C17: the retry of the branch listing in initializeRepository. *)

\* the attempts of the last invocation to list the branches, those of the
\* bootstrap left out
ListingAttempts(cs) ==
    Len(SelectSeq(SubSeq(cs, 1, Len(cs) - Len(From(cs, "writeFileSync"))),
                  LAMBDA c : c.op = "fetch"))

\* the failure messages that hold the host-key warning
WithWarning ==
    {"Warning: Permanently added 'host' (ED25519) to the list of known hosts.",
     "Warning: Permanently added 'host'. fatal: Could not read."}

\* nothing follows the listing
EndsWithListing(cs) ==
    /\ cs[Len(cs)].op \in {"fetch", "getBranches"}
    /\ \A i \in 1..Len(cs) :
          cs[i].op \notin {"setBranch", "writeFileSync", "stage", "commit", "push",
                           "setPreferences"}

\* the messages a failing listing raises
ListingMessages == {o.message : o \in ListingOutcomes \ {ListingOk}}

\* the errors the listing attempts of the last invocation raised
ListingRaised == SelectSeq(raised, LAMBDA m : m \in ListingMessages)

\* C17: in initializeRepository a listing that fails with a message holding
\* the host-key warning is retried once; a listing that fails with another
\* message is rethrown without a retry; a failing retry is rethrown; so the
\* listing is attempted at most twice, and after a rethrown failure nothing
\* follows: no branch switch, no bootstrap, no change of the preferences.
C17_ListingRetry ==
    (ret.op = "initializeRepository" /\ Invoked("git", "fetch")) =>
        /\ ListingAttempts(calls) \in {1, 2}
        /\ ListingAttempts(calls) = 2 <=>
               (ListingRaised # <<>> /\ ListingRaised[1] \in WithWarning)
        /\ (ListingRaised # <<>> /\ ListingRaised[1] \notin WithWarning) =>
               /\ ret.outcome = "throw" /\ ret.value = ListingRaised[1]
               /\ EndsWithListing(calls)
        /\ Len(ListingRaised) = 2 =>
               /\ ret.outcome = "throw" /\ ret.value = ListingRaised[2]
               /\ EndsWithListing(calls)
        /\ (Len(ListingRaised) = 1 /\ ListingRaised[1] \in WithWarning) =>
               ~EndsWithListing(calls)

\* an initializeRepository call that listed the branches twice and threw
\* the error of the retry
C17_Witness ==
    /\ ret.op = "initializeRepository"
    /\ ret.outcome = "throw"
    /\ ListingAttempts(calls) = 2
    /\ ret.value = "fatal: Could not read from remote repository."

-----------------------------------------------------------------------------
(* C18: resetWorkfolder. *)

ResetCalled == ret.op = "resetWorkfolder"

\* the calls of the last invocation that change the working folder or the
\* database
ResetPart ==
    SelectSeq(calls, LAMBDA c :
        c.op \in {"cleanWorkFolder", "resetBranch", "pull", "importFromWorkFolder"})

\* the steps of a reset, the import being the last one when asked for
ResetSteps(options, upstream) ==
    <<[svc |-> "export", op |-> "cleanWorkFolder", arg |-> <<>>],
      [svc |-> "git", op |-> "resetBranch", arg |-> [hard |-> TRUE, target |-> upstream]],
      [svc |-> "git", op |-> "pull", arg |-> <<>>]>>
    \o (IF options.importAfterPull
        THEN <<[svc |-> "import", op |-> "importFromWorkFolder", arg |-> options]>>
        ELSE <<>>)

\* C18: resetWorkfolder runs cleanWorkFolder, resetBranch (hard, to the ref
\* the current branch tracks) and pull in this order; the import is invoked
\* only with importAfterPull set and only after the pull has returned; an
\* import failure is thrown to the caller, the import having been invoked
\* once and nothing after it, the folder staying as the pull left it.
C18_ResetWorkfolder ==
    ResetCalled =>
        /\ IsPrefix(ResetPart, ResetSteps(ret.options, "origin/" \o prefs.branchName))
        /\ (ret.outcome = "return") =>
               ResetPart = ResetSteps(ret.options, "origin/" \o prefs.branchName)
        /\ Invoked("import", "importFromWorkFolder") =>
               /\ ret.options.importAfterPull
               /\ folder = remote
        /\ (raised = <<"Error: importFromWorkFolder">>) =>
               /\ ret.outcome = "throw"
               /\ ret.value = "Error: importFromWorkFolder"
               /\ Rejected.op = "importFromWorkFolder"
               /\ folder = remote

\* a resetWorkfolder call whose import rejected, the folder holding the
\* files of the remote tip
C18_Witness ==
    /\ ResetCalled
    /\ ret.outcome = "throw"
    /\ Rejected.op = "importFromWorkFolder"
    /\ folder = remote
    /\ folder # EmptyTree

-----------------------------------------------------------------------------
(* C19: who writes the preferences. *)

-----------------------------------------------------------------------------
(* C20: the order of stage, commit and push. *)

\* the calls of the last invocation on the index, the commits and the remote
ProceedPart ==
    SelectSeq(calls, LAMBDA c :
        \/ c.op \in {"stage", "commit", "push"}
        \/ c.op = "resetBranch" /\ c.arg = NoArg)

CallsOf(op) == SelectSeq(calls, LAMBDA c : c.op = op)

\* C20: a push that returns 200 has invoked on the transport the index
\* reset, stage, commit and push, each once and in this order, the commit
\* with options.message or 'Updated Workfolder', the push with the branch
\* of the preferences and force as options.force (false when unset); the
\* calls of any push are the first ones of this sequence, so that nothing
\* follows a stage or a commit that rejects.
C20_PushPathOrdering ==
    (PushCalled /\ ~prefs.branchReadOnly) =>
        /\ IsPrefix(OpsOf(ProceedPart), <<"resetBranch", "stage", "commit", "push">>)
        /\ \A i \in 1..Len(CallsOf("commit")) :
              CallsOf("commit")[i].arg =
                 [message |-> IF ret.options.message = "undefined"
                              THEN "Updated Workfolder" ELSE ret.options.message]
        /\ \A i \in 1..Len(CallsOf("push")) :
              CallsOf("push")[i].arg =
                 [branch |-> prefs.branchName, force |-> (ret.options.force = "true")]
        /\ (ret.outcome = "return" /\ ret.value.status = 200) =>
              OpsOf(ProceedPart) = <<"resetBranch", "stage", "commit", "push">>
        /\ (ret.outcome = "throw" /\ Rejected.op = "stage") =>
              ~Invoked("git", "commit") /\ ~Invoked("git", "push")
        /\ (ret.outcome = "throw" /\ Rejected.op = "commit") =>
              Invoked("git", "stage") /\ ~Invoked("git", "push")

\* a forced push with a message of its own, over a changeset it computed,
\* that returned 200
C20_Witness ==
    /\ Proceeded
    /\ ret.options.message = "msg"
    /\ ret.options.force = "true"
    /\ ret.options.fileNames = Undefined
    /\ Len(ProceedPart) = 4

-----------------------------------------------------------------------------
(* C21: tag mappings are compared by the pair (tagId, workflowId). *)

SamePair(m, n) == m.tagId = n.tagId /\ m.workflowId = n.workflowId

\* the mappings of these with no mapping of the same pair among those
Unpaired(these, those) ==
    {m \in Range(these) : \A n \in Range(those) : ~SamePair(m, n)}

\* C21: whenever a local mapping has no remote mapping of the same tagId and
\* workflowId, or a remote one no such local mapping, getStatus2 reports
\* exactly one item of type tags, modified and in conflict; and each local
\* mapping without such a remote counterpart is detected as missing in remote
\* (so is (t, w1) when the remote only holds (t, w2)).
C21_MappingsByPair ==
    StatusReturned =>
        LET items == ItemsOfType(FilesOf(ret), "tags")
        IN /\ (\/ Unpaired(db.mappings, folder.mappings) # {}
               \/ Unpaired(folder.mappings, db.mappings) # {}) =>
                  /\ Len(items) = 1
                  /\ items[1].status = "modified"
                  /\ items[1].conflict = TRUE
           /\ ret.options.verbose =>
                  /\ Range(ret.value.mappingsMissingInRemote) =
                         Unpaired(db.mappings, folder.mappings)
                  /\ Range(ret.value.mappingsMissingInLocal) =
                         Unpaired(folder.mappings, db.mappings)

-----------------------------------------------------------------------------
(* C22: preferLocalVersion controls display only. *)

\* two items that agree on everything but the name and the timestamp
SameButName(a, b) ==
    /\ a.type = b.type /\ a.id = b.id /\ a.file = b.file
    /\ a.status = b.status /\ a.location = b.location
    /\ a.conflict = b.conflict

\* the rows of the database and the files of the folder of one kind
RowsOf(tree, type) == IF type = "workflow" THEN tree.wf ELSE tree.cred

\* the name a modified workflow or credential is shown with
ShownName(item, preferLocalVersion) ==
    IF preferLocalVersion
    THEN WithId(RowsOf(db, item.type), item.id).name
    ELSE WithId(RowsOf(folder, item.type), item.id).name

\* C22: the changeset a getStatus2 run returned and the changeset of a run
\* with the other preferLocalVersion, over the same snapshots and direction,
\* agree item by item on type, id, file, status, location and conflict; they
\* differ at most in the name of modified items, which is the local record's
\* name when preferLocalVersion is true and the remote record's otherwise.
C22_PreferLocalDisplayOnly ==
    StatusReturned =>
        LET mine == FilesOf(ret)
            other == reconcile(db, folder,
                         [ret.options EXCEPT !.preferLocalVersion = ~@],
                         ret.at).sourceControlledFiles
        IN /\ Len(mine) = Len(other)
           /\ \A i \in 1..Len(mine) :
                 /\ SameButName(mine[i], other[i])
                 /\ mine[i].name # other[i].name => mine[i].status = "modified"
                 /\ (mine[i].status = "modified"
                     /\ mine[i].type \in {"workflow", "credential"}) =>
                        /\ mine[i].name =
                               ShownName(mine[i], ret.options.preferLocalVersion)
                        /\ other[i].name =
                               ShownName(other[i], ~ret.options.preferLocalVersion)

\* a run preferring the remote version over a workflow renamed on one side
C22_Witness ==
    /\ StatusReturned
    /\ ~ret.options.preferLocalVersion
    /\ \E item \in Range(FilesOf(ret)) :
          /\ item.type = "workflow" /\ item.status = "modified"
          /\ item.name = WithId(folder.wf, item.id).name
          /\ item.name # WithId(db.wf, item.id).name

-----------------------------------------------------------------------------
(* C23: a failure of the bootstrap is logged and swallowed. *)

\* the steps of the bootstrap an initializeRepository call invoked
BootstrapSteps(cs) == SelectSeq(From(cs, "writeFileSync"), LAMBDA c : c.svc # "log")

\* the positions of the bootstrap steps whose error the call raised last
FailedSteps(cs, errors) ==
    {i \in 1..Len(BootstrapSteps(cs)) :
        errors # <<>> /\ errors[Len(errors)] = ErrorOf(BootstrapSteps(cs)[i])}

\* C23: when a step of the bootstrap of initializeRepository rejects (the
\* README write, stage, commit, the forced push, the branch listing after it
\* or the branch switch), the call returns normally, the error is logged and
\* the log entry is the last thing the call does, the rejecting step is the
\* last step invoked, no setBranch of the transport has returned, and the
\* preferences are as they were.
C23_BootstrapFailureSwallowed ==
    [][(/\ ret'.op = "initializeRepository"
        /\ branches = {}
        /\ FailedSteps(calls', raised') # {})
       => /\ ret'.outcome = "return"
          /\ FailedSteps(calls', raised') = {Len(BootstrapSteps(calls'))}
          /\ calls'[Len(calls')] =
                 [svc |-> "log", op |-> "error",
                  arg |-> "Failed to create initial commit: "
                          \o raised'[Len(raised')]]
          /\ Len(From(calls', "writeFileSync")) = Len(BootstrapSteps(calls')) + 1
          /\ \A i \in 1..Len(calls') :
                calls'[i].op = "setBranch" => i = Len(calls') - 1
          /\ prefs' = prefs
      ]_vars

\* an initializeRepository call whose forced push rejected: it returned the
\* empty branch list after logging the error
C23_Witness ==
    /\ ret.op = "initializeRepository"
    /\ ret.outcome = "return"
    /\ raised = <<"Error: push">>
    /\ calls[Len(calls)].svc = "log"
    /\ calls[Len(calls) - 1].op = "push"
    /\ ret.value = BranchList({})

-----------------------------------------------------------------------------
(* C24: the handlers are not serialised. *)

\* C24: a commit made by an invocation that had no other invocation in
\* flight beside it covers exactly the paths that invocation staged; a commit
\* that covers anything else was made with another invocation in flight.
C24_CommitCoversOwnStage ==
    (committed.by # 0 /\ committed.alone) =>
        /\ committed.covers = committed.staged
        /\ committed.between = {}

\* a push that staged its file and, before its commit, had the other
\* invocation reset the index or stage a file of its own: the commit covers
\* other paths than the ones it staged
C24_Witness ==
    /\ committed.by # 0
    /\ ~committed.alone
    /\ committed.staged # {}
    /\ committed.between \cap {"resetBranch", "stage"} # {}
    /\ committed.covers # committed.staged

-----------------------------------------------------------------------------
(* C25: disconnect. *)

\* the steps of disconnect, in their order
DisconnectSteps(keepKeyPair) ==
    <<"setPreferences", "deleteRepositoryFolder">>
    \o (IF keepKeyPair THEN <<>> ELSE <<"deleteKeyPairFiles">>)
    \o <<"resetService">>

\* C25: a disconnect that returns leaves the preferences with
\* connected=false and an empty branchName, the working folder deleted and
\* the handle reset, and has deleted the key pair files if and only if
\* keepKeyPair was not set; its steps run in the order preferences, folder,
\* key pair, handle; and when a step after the first rejects, the error is
\* rethrown with the preferences already disconnected and the handle as it
\* was.
C25_Disconnect ==
    [][(ret'.op = "disconnect") =>
          /\ IsPrefix(OpsOf(calls'), DisconnectSteps(ret'.options.keepKeyPair))
          /\ ret'.outcome = "return" =>
                /\ OpsOf(calls') = DisconnectSteps(ret'.options.keepKeyPair)
                /\ prefs'.connected = FALSE
                /\ prefs'.branchName = ""
                /\ ret'.value = prefs'
                /\ folder' = EmptyTree
                /\ git' = FALSE
                /\ keyPair' = (keyPair /\ ret'.options.keepKeyPair)
          /\ ret'.outcome = "throw" =>
                /\ ret'.value = "Failed to disconnect from source control: "
                                \o raised'[Len(raised')]
                /\ Len(calls') > 1 =>
                      /\ prefs'.connected = FALSE
                      /\ prefs'.branchName = ""
                      /\ git' = git
                /\ Len(calls') = 1 => prefs' = prefs
      ]_vars

\* a disconnect whose key pair deletion rejected, entered with the handle
\* set: the preferences are disconnected, the folder is gone, the handle is
\* still there
C25_Witness ==
    /\ ret.op = "disconnect"
    /\ ret.outcome = "throw"
    /\ calls[Len(calls)].op = "deleteKeyPairFiles"
    /\ prefs.connected = FALSE
    /\ folder = EmptyTree
    /\ keyPair
    /\ git

-----------------------------------------------------------------------------
(* C26: the classification of a file by fileNameToSourceControlledFile. *)

FileResolved ==
    /\ ret.op = "fileNameToSourceControlledFile"
    /\ ret.outcome = "return"
    /\ ret.value # Undefined

\* the status lists in the order of their precedence, with the status each
\* one stands for
StatusLists ==
    <<"not_added", "conflicted", "created", "deleted", "modified", "ignored",
      "renamed", "staged">>

StatusOfList(list) == IF list = "not_added" THEN "new" ELSE list

\* the file is in this list of the status result
InList(statusResult, list, fileName) ==
    IF list = "ignored"
    THEN statusResult.ignored # Undefined /\ listed(statusResult.ignored[1], fileName)
    ELSE IF list = "renamed"
    THEN \E e \in Range(statusResult.renamed) : e.to = fileName
    ELSE listed(statusResult[list], fileName)

\* the positions in StatusLists of the lists that hold the file
Holding(statusResult, fileName) ==
    {i \in 1..Len(StatusLists) : InList(statusResult, StatusLists[i], fileName)}

\* C26: an item returned for a file with location=remote that is in none of
\* the git status lists has status=created and location=local; one for a
\* file with location=local in none of the lists has status=unknown; and
\* for a file in some list the status is that of the first list holding it,
\* in the order not_added, conflicted, created, deleted, modified, ignored,
\* renamed, staged, with conflict=true only when that status is conflicted.
C26_FileClassification ==
    FileResolved =>
        LET input == ret.options
            item == ret.value[1]
            holding == Holding(input.statusResult, input.fileName)
        IN /\ (holding = {} /\ input.location = "remote") =>
                  item.status = "created" /\ item.location = "local"
           /\ (holding = {} /\ input.location = "local") =>
                  item.status = "unknown" /\ item.location = "local"
           /\ holding # {} =>
                  /\ item.status =
                        StatusOfList(StatusLists[CHOOSE i \in holding :
                                                    \A j \in holding : i <= j])
                  /\ item.location = input.location
           /\ item.conflict <=> item.status = "conflicted"

-----------------------------------------------------------------------------
(* C27: no variables item without a difference. *)

\* some variable is missing on one side, or an id and a key are paired
\* differently on the two sides
VariablesDiffer(varLocalIds, varRemoteIds) ==
    \/ IdsOf(varLocalIds) # IdsOf(varRemoteIds)
    \/ \E l \in Range(varLocalIds) : \E r \in Range(varRemoteIds) :
          \/ (l.id = r.id /\ l.key # r.key)
          \/ (l.id # r.id /\ l.key = r.key)

\* C27: the changeset of getStatus2 holds an item of type variables if and
\* only if some variable is missing on one side or has a mismatching id/key
\* pairing; identical non-empty variable sets give no such item.
C27_NoSpuriousVariablesItem ==
    StatusReturned =>
        (Len(ItemsOfType(FilesOf(ret), "variables")) > 0
            <=> VariablesDiffer(db.var, folder.var))

-----------------------------------------------------------------------------
(* C28: the transport is initialised lazily. *)

TransportOps ==
    {"fetch", "pull", "push", "stage", "commit", "resetBranch", "setBranch",
     "getBranches", "getCurrentBranch"}

\* the positions of the initService calls in a call sequence
Initialisations(cs) ==
    {i \in 1..Len(cs) : cs[i].svc = "git" /\ cs[i].op = "initService"}

\* the handlers that test the handle on entry
LazyHandlers ==
    {"initializeRepository", "getBranches", "setBranch", "resetWorkfolder",
     "pushWorkfolder2", "pullWorkfolder2", "getStatus2", "setGitUserDetails"}

\* C28: in every step of the service, a transport operation (fetch, pull,
\* push, stage, commit, resetBranch, setBranch, getBranches,
\* getCurrentBranch) is invoked only with the handle set, on entry or by an
\* initService call that returned earlier in the same invocation; and a
\* handler that tests the handle initialises it once, as its first call,
\* when it is absent on entry, and not at all when it is present.
C28_LazyInitialisation ==
    [][/\ \A i \in 1..Len(calls') :
             (calls'[i].svc = "git" /\ calls'[i].op \in TransportOps) =>
                 \/ git
                 \/ \E j \in Initialisations(calls') : j < i
       /\ (ret'.op \in LazyHandlers) =>
             Initialisations(calls') = (IF git THEN {} ELSE {1})
       /\ (\E i \in 1..Len(calls') :
              calls'[i].svc = "git" /\ calls'[i].op \in TransportOps) => git'
      ]_vars

\* a branch listing after a disconnect that deleted the key pair and reset
\* the handle: the listing initialised the handle first
C28_Witness ==
    /\ ret.op = "getBranches"
    /\ ret.outcome = "return"
    /\ ~keyPair
    /\ prefs.connected = FALSE
    /\ OpsOf(calls) = <<"initService", "fetch", "getBranches">>
    /\ git

-----------------------------------------------------------------------------
(* C29: the shape of a computed changeset. *)

\* C29: every item of a changeset returned by getStatus2 has its status in
\* {created, deleted, modified} and its type in {workflow, credential,
\* variables, tags}, and its conflict flag is true if and only if its status
\* is modified; so no created or deleted item is among the possible
\* conflicts of the push barrier.
C29_ChangesetShape ==
    StatusReturned =>
        /\ \A item \in Range(FilesOf(ret)) :
              /\ item.status \in {"created", "deleted", "modified"}
              /\ item.type \in {"workflow", "credential", "variables", "tags"}
              /\ item.conflict <=> item.status = "modified"
        /\ \A item \in Range(possibleConflicts(FilesOf(ret))) :
              item.status = "modified"

\* a changeset with a one-sided item and a modified one
C29_Witness ==
    /\ StatusReturned
    /\ \E a, b \in Range(FilesOf(ret)) :
          /\ a.status \in {"created", "deleted"} /\ ~a.conflict
          /\ b.status = "modified" /\ b.conflict
          /\ a.type = "workflow" /\ b.type = "tags"

-----------------------------------------------------------------------------
(* C30: the conflict barrier over supplied files. *)

\* the stage, commit and push calls of the last invocation
Publishing == SelectSeq(calls, LAMBDA c : c.op \in {"stage", "commit", "push"})

\* C30: a push called with a non-empty fileNames and force not true is
\* blocked with 409 exactly when a supplied item has conflict=true; when
\* none has, it computes no status, stages, commits and pushes, in this
\* order, and returns 200.
C30_SuppliedFilesBarrier ==
    (/\ PushCalled
     /\ ~prefs.branchReadOnly
     /\ Supplied # <<>>
     /\ ret.options.force # "true")
    => /\ ret.outcome = "return"
       /\ ret.value.status = 409 <=> \E item \in Range(Supplied) : item.conflict
       /\ (\A item \in Range(Supplied) : ~item.conflict) =>
             /\ ret.value.status = 200
             /\ OpsOf(Publishing) = <<"stage", "commit", "push">>
             /\ ~Invoked("export", "cleanWorkFolder")
             /\ ~Invoked("git", "pull")
             /\ \A i \in 1..Len(calls) : calls[i].svc # "import"

\* a push of one supplied item without conflict that returned 200 while the
\* database and the remote differ in a workflow that a status computation
\* reports with conflict=true
C30_Witness ==
    /\ Proceeded
    /\ ret.options.force = "undefined"
    /\ Supplied # <<>>
    /\ \A item \in Range(Supplied) : ~item.conflict
    /\ \E item \in Range(reconcile(db, refreshed(folder, remote), pushStatusOptions,
                                   clock).sourceControlledFiles) :
          item.conflict /\ item.type = "workflow"

====
